---- MODULE Spec2Model ----
(***************************************************************************)
(* A model of one SierpChain node: the Blockchain (chain + difficulty),    *)
(* the transaction pool, the miner, the HTTP handlers /mine and /transact  *)
(* and the dispatcher of inbound P2P messages.                             *)
(*                                                                         *)
(* SHA-256 digests are symbolic: the digest of a value is a record that    *)
(* holds the serialized value, so two digests are equal exactly when the   *)
(* hashed values are equal (no collisions).  The number of leading '0'     *)
(* characters of a block digest is a fixed function of the hashed block.   *)
(* Every handler runs under the blockchain mutex from its first chain      *)
(* access to its end, so each handler is one atomic action.                *)
(***************************************************************************)
EXTENDS Integers, Sequences, FiniteSets, TLC

VARIABLES
    chain,       \* Blockchain.chain : Vec<Block>
    difficulty,  \* Blockchain.difficulty : usize
    pool,        \* TransactionPool : Vec<Transaction>
    file,        \* blockchain.json : <<>> when absent, else <<[chain, difficulty]>>
    now,         \* Utc::now().timestamp()
    panicked,    \* a handler panicked while holding the blockchain mutex
    replaced,    \* history: a ChainResponse has replaced the chain
    last,        \* the handler that ran last and what it returned
    sentP2p,     \* messages the last handler sent on the outbound channel
    sentHub,     \* BroadcastBlock notifications the last handler sent to the hub
    peers,       \* P2p.peers of each node : HashSet<PeerId>
    established, \* each node's swarm holds a connection: gossipsub.all_peers() is not empty
    p2p_message, \* each node's channel from its P2p task to its dispatcher
    to_p2p,      \* each node's channel from its handlers to its P2p task
    gossip,      \* messages published on the topic, on their way to each node
    remote,      \* the Blockchain of the other node and whether its dispatcher panicked
    met,         \* history: the chain lengths when both nodes had registered each other
    lost,        \* history: the Expired and ConnectionClosed events so far
    lock,        \* the task that holds the blockchain mutex, or "none"
    pool_lock,   \* the task that holds the mutex of the transaction pool, or "none"
    pc,          \* where each task of the node is inside its handler
    work         \* the block each task has in hand

nodeVars == <<chain, difficulty, pool, file, now, panicked, replaced, last, sentP2p, sentHub>>
netVars == <<peers, established, p2p_message, to_p2p, gossip, remote, met, lost>>
lockVars == <<lock, pool_lock, pc, work>>
vars == <<chain, difficulty, pool, file, now, panicked, replaced, last, sentP2p, sentHub,
          peers, established, p2p_message, to_p2p, gossip, remote, met, lost,
          lock, pool_lock, pc, work>>

----------------------------------------------------------------------------
(* Program constants *)

BLOCK_GENERATION_INTERVAL == 10
DIFFICULTY_ADJUSTMENT_INTERVAL == 10
FUTURE_TOLERANCE == 30
REWARD == 50
GENESIS_REWARD == 50
DEFAULT_DEPTH == 5
\* usize::MAX, the vout of the genesis coinbase input (an opaque marker here;
\* TLC's integers are 32 bits wide)
USIZE_MAX == 2147483647

\* This node and the node it meets
Nodes == {"local", "remote"}
\* The tasks of a node that take the blockchain mutex: the POST /mine handler,
\* the dispatcher task, the GET /blocks handler
Tasks == {"mine", "dispatcher", "blocks"}
Other(n) == IF n = "local" THEN "remote" ELSE "local"

(* Bounds of the model *)

MaxNewBlocks == 2     \* blocks added to the chain the node started with
MaxPool == 2          \* transactions waiting in the pool
MaxTicks == 1         \* seconds the clock advances
HashZeroRange == 4    \* a block digest has 0 .. HashZeroRange-1 leading zeros

----------------------------------------------------------------------------
(* Strings and digests *)

\* A literal string, with the number of '0' characters it starts with.
Str(s, z) == [str |-> s, zeros |-> z]
EmptyString == Str("", 0)
\* "0".repeat(64): the txid of a coinbase input
ZeroTxid == Str("0x64", 64)

\* The block as calculate_hash serializes it: every field, hash blanked.
BlockHeaders(b) ==
    [index |-> b.index, timestamp |-> b.timestamp, fractal |-> b.fractal,
     transactions |-> b.transactions, previous_hash |-> b.previous_hash,
     nonce |-> b.nonce]

\* Block::calculate_hash: SHA-256 of the serialized block with hash blanked.
CalculateHash(b) == [blk |-> BlockHeaders(b)]

\* Leading '0' characters of the hex digest of a block: a fixed function of
\* the hashed content, changing with the nonce.
DigestZeros(h) ==
    (h.nonce + h.index + h.timestamp + Len(h.transactions)) % HashZeroRange

LeadingZeros(s) == IF "blk" \in DOMAIN s THEN DigestZeros(s.blk) ELSE s.zeros

\* hash.starts_with(&"0".repeat(difficulty))
StartsWithZeros(s, d) == LeadingZeros(s) >= d

----------------------------------------------------------------------------
(* Wallets, transactions *)

Keys == {"kM", "kA"}
MinerKey == "kM"

PublicKey(k) == [pk |-> k]
\* Wallet::get_address: Base58Check of the hash of the public key
GetAddress(k) == [addr |-> PublicKey(k)]
GenesisAddress == Str("genesis_address", 0)

TxInput(txid, vout, sig, pk) ==
    [txid |-> txid, vout |-> vout, script_sig |-> sig, pub_key |-> pk, sequence |-> 0]
TxOutput(value, spk) == [value |-> value, script_pub_key |-> spk]

\* Transaction::calculate_hash: id, script_sig and pub_key are blanked.
TxCalculateHash(tx) ==
    [tx |-> [timestamp |-> tx.timestamp,
             inputs |-> [i \in DOMAIN tx.inputs |->
                            [txid |-> tx.inputs[i].txid, vout |-> tx.inputs[i].vout,
                             sequence |-> tx.inputs[i].sequence]],
             outputs |-> tx.outputs]]

\* Transaction::new at time t
NewTransaction(inputs, outputs, t) ==
    LET tx == [id |-> EmptyString, timestamp |-> t, inputs |-> inputs, outputs |-> outputs]
    IN  [tx EXCEPT !.id = TxCalculateHash(tx)]

\* Wallet::sign: an ed25519 signature of msg under key k
WalletSign(k, msg) == [sig_by |-> k, msg |-> msg]

\* Transaction::sign: one signature, stamped on every input
Sign(tx, k) ==
    LET signature == WalletSign(k, TxCalculateHash(tx))
    IN  [tx EXCEPT !.inputs = [i \in DOMAIN tx.inputs |->
            [tx.inputs[i] EXCEPT !.script_sig = signature, !.pub_key = PublicKey(k)]]]

\* One input of Transaction::verify: decoding must succeed and the signature
\* must verify against the public key and the recomputed hash.
InputVerifies(input, tx_hash) ==
    \/ input.txid = ZeroTxid
    \/ /\ "sig_by" \in DOMAIN input.script_sig
       /\ "pk" \in DOMAIN input.pub_key
       /\ input.script_sig.sig_by = input.pub_key.pk
       /\ input.script_sig.msg = tx_hash

\* Transaction::verify
Verify(tx) ==
    \A i \in DOMAIN tx.inputs : InputVerifies(tx.inputs[i], TxCalculateHash(tx))

----------------------------------------------------------------------------
(* Fractals and the miner *)

\* FractalType::Sierpinski { depth, seed: 0 }, the default of /mine and the
\* periodic miner
DefaultFractalType == [type |-> "Sierpinski", depth |-> DEFAULT_DEPTH, seed |-> 0]
\* create_genesis_block mines with depth 0
GenesisFractalType == [type |-> "Sierpinski", depth |-> 0, seed |-> 0]

\* FractalType::generate with the seed set: the generated payload (vertices,
\* iteration counts) is a function of the parameters and the seed.
Generate(fractal_type, seed) ==
    [type |-> fractal_type.type, depth |-> fractal_type.depth, seed |-> seed]

\* mine_block leaving the seed of the fractal as the request gave it
RECURSIVE mine_block_seed_unset(_, _, _)
mine_block_seed_unset(d, fractal_type, block) ==
    LET b == [block EXCEPT !.fractal = Generate(fractal_type, fractal_type.seed)]
        hash == CalculateHash(b)
    IN  IF StartsWithZeros(hash, d)
        THEN [b EXCEPT !.hash = hash]
        ELSE mine_block_seed_unset(d, fractal_type, [b EXCEPT !.nonce = @ + 1])

\* Miner::mine_block: seed the fractal with the nonce, hash, stop at the first
\* hash with `d` leading zeros, else nonce += 1.
RECURSIVE mine_block(_, _, _)
mine_block(d, fractal_type, block) ==
    LET b == [block EXCEPT !.fractal = Generate(fractal_type, block.nonce)]
        hash == CalculateHash(b)
    IN  IF StartsWithZeros(hash, d)
        THEN [b EXCEPT !.hash = hash]
        ELSE mine_block(d, fractal_type, [b EXCEPT !.nonce = @ + 1])

\* The search ends only if some digest has `d` leading zeros.
Mineable(d) == d < HashZeroRange

----------------------------------------------------------------------------
(* Blockchain *)

Last(c) == c[Len(c)]

\* Blockchain::adjust_difficulty on chain c with difficulty d.  Indexing the
\* chain at latest.index - 10 panics when that position is outside the chain.
\* adjust_difficulty lowering the difficulty whatever its value
adjust_difficulty_no_floor(c, d) ==
    LET latest_block == Last(c)
        pos == latest_block.index - DIFFICULTY_ADJUSTMENT_INTERVAL
        expected_time == DIFFICULTY_ADJUSTMENT_INTERVAL * BLOCK_GENERATION_INTERVAL
    IN  IF latest_block.index % DIFFICULTY_ADJUSTMENT_INTERVAL = 0 /\ latest_block.index # 0
        THEN IF pos + 1 > Len(c)
             THEN [difficulty |-> d, panic |-> TRUE]
             ELSE LET time_taken == latest_block.timestamp - c[pos + 1].timestamp
                  IN  IF time_taken < expected_time \div 2
                      THEN [difficulty |-> d + 1, panic |-> FALSE]
                      ELSE IF time_taken > expected_time * 2
                           THEN [difficulty |-> d - 1, panic |-> FALSE]
                           ELSE [difficulty |-> d, panic |-> FALSE]
        ELSE [difficulty |-> d, panic |-> FALSE]

\* adjust_difficulty comparing with the expected time, not with half of it
adjust_difficulty_no_half(c, d) ==
    LET latest_block == Last(c)
        pos == latest_block.index - DIFFICULTY_ADJUSTMENT_INTERVAL
        expected_time == DIFFICULTY_ADJUSTMENT_INTERVAL * BLOCK_GENERATION_INTERVAL
    IN  IF latest_block.index % DIFFICULTY_ADJUSTMENT_INTERVAL = 0 /\ latest_block.index # 0
        THEN IF pos + 1 > Len(c)
             THEN [difficulty |-> d, panic |-> TRUE]
             ELSE LET time_taken == latest_block.timestamp - c[pos + 1].timestamp
                  IN  IF time_taken < expected_time
                      THEN [difficulty |-> d + 1, panic |-> FALSE]
                      ELSE IF time_taken > expected_time * 2 /\ d > 1
                           THEN [difficulty |-> d - 1, panic |-> FALSE]
                           ELSE [difficulty |-> d, panic |-> FALSE]
        ELSE [difficulty |-> d, panic |-> FALSE]

adjust_difficulty(c, d) ==
    LET latest_block == Last(c)
        pos == latest_block.index - DIFFICULTY_ADJUSTMENT_INTERVAL
        expected_time == DIFFICULTY_ADJUSTMENT_INTERVAL * BLOCK_GENERATION_INTERVAL
    IN  IF latest_block.index % DIFFICULTY_ADJUSTMENT_INTERVAL = 0 /\ latest_block.index # 0
        THEN IF pos + 1 > Len(c)
             THEN [difficulty |-> d, panic |-> TRUE]
             ELSE LET time_taken == latest_block.timestamp - c[pos + 1].timestamp
                  IN  IF time_taken < expected_time \div 2
                      THEN [difficulty |-> d + 1, panic |-> FALSE]
                      ELSE IF time_taken > expected_time * 2 /\ d > 1
                           THEN [difficulty |-> d - 1, panic |-> FALSE]
                           ELSE [difficulty |-> d, panic |-> FALSE]
        ELSE [difficulty |-> d, panic |-> FALSE]

\* The genesis coinbase and block of create_genesis_block at time t
GenesisCoinbase(t) ==
    NewTransaction(<<TxInput(ZeroTxid, USIZE_MAX, Str("genesis", 0), EmptyString)>>,
                   <<TxOutput(GENESIS_REWARD, GenesisAddress)>>, t)

create_genesis_block(d, t) ==
    mine_block(d, GenesisFractalType,
               [index |-> 0, timestamp |-> t, fractal |-> GenesisFractalType,
                transactions |-> <<GenesisCoinbase(t)>>,
                previous_hash |-> Str("0", 1), hash |-> EmptyString, nonce |-> 0])

\* Blockchain::add_block at time t: mine on the tip, push, adjust.
add_block(c, d, fractal_type, transactions, t) ==
    LET previous_block == Last(c)
        new_block == [index |-> previous_block.index + 1, timestamp |-> t,
                      fractal |-> fractal_type, transactions |-> transactions,
                      previous_hash |-> previous_block.hash,
                      hash |-> EmptyString, nonce |-> 0]
        mined_block == mine_block(d, fractal_type, new_block)
        pushed == Append(c, mined_block)
        adj == adjust_difficulty(pushed, d)
    IN  [chain |-> pushed, difficulty |-> adj.difficulty,
         block |-> mined_block, panic |-> adj.panic]

\* is_block_valid without the index and previous-hash rules
is_block_valid_unlinked(new_block, previous_block, d, t) ==
    /\ StartsWithZeros(new_block.hash, d)
    /\ new_block.hash = CalculateHash(new_block)
    /\ ~(new_block.timestamp > t + FUTURE_TOLERANCE)
    /\ ~(new_block.timestamp < previous_block.timestamp)

\* Blockchain::is_block_valid against the tip, at time t
is_block_valid(new_block, previous_block, d, t) ==
    /\ new_block.index = previous_block.index + 1
    /\ new_block.previous_hash = previous_block.hash
    /\ StartsWithZeros(new_block.hash, d)
    /\ new_block.hash = CalculateHash(new_block)
    /\ ~(new_block.timestamp > t + FUTURE_TOLERANCE)
    /\ ~(new_block.timestamp < previous_block.timestamp)

\* add_block_from_network pushing the block without is_block_valid
add_block_from_network_unvalidated(c, d, block, t) ==
    LET pushed == Append(c, block)
        adj == adjust_difficulty(pushed, d)
    IN  [chain |-> pushed, difficulty |-> adj.difficulty,
         added |-> TRUE, panic |-> adj.panic]

\* Blockchain::add_block_from_network at time t
add_block_from_network(c, d, block, t) ==
    IF is_block_valid(block, Last(c), d, t)
    THEN LET pushed == Append(c, block)
             adj == adjust_difficulty(pushed, d)
         IN  [chain |-> pushed, difficulty |-> adj.difficulty,
              added |-> TRUE, panic |-> adj.panic]
    ELSE [chain |-> c, difficulty |-> d, added |-> FALSE, panic |-> FALSE]

\* All transactions of the chain, in chain order then transaction order
RECURSIVE AllTransactions(_)
AllTransactions(c) ==
    IF c = <<>> THEN <<>>
    ELSE AllTransactions(SubSeq(c, 1, Len(c) - 1)) \o Last(c).transactions

\* First pass of get_utxos: every (txid, vout) an input refers to
SpentTxos(c) ==
    LET txs == AllTransactions(c)
    IN  UNION {{<<txs[i].inputs[j].txid, txs[i].inputs[j].vout>> :
                    j \in DOMAIN txs[i].inputs} : i \in DOMAIN txs}

\* The unspent outputs of one transaction paying `address`, in output order
RECURSIVE UtxosOfTx(_, _, _, _)
UtxosOfTx(tx, address, spent, n) ==
    IF n = 0 THEN <<>>
    ELSE LET rest == UtxosOfTx(tx, address, spent, n - 1)
             output == tx.outputs[n]
         IN  IF output.script_pub_key = address /\ <<tx.id, n - 1>> \notin spent
             THEN Append(rest, [txid |-> tx.id, vout |-> n - 1, output |-> output])
             ELSE rest

RECURSIVE UtxosOfTxs(_, _, _)
UtxosOfTxs(txs, address, spent) ==
    IF txs = <<>> THEN <<>>
    ELSE UtxosOfTxs(SubSeq(txs, 1, Len(txs) - 1), address, spent)
            \o UtxosOfTx(Last(txs), address, spent, Len(Last(txs).outputs))

\* get_utxos without the lookup in the spent set
get_utxos_ignoring_spent(c, address) == UtxosOfTxs(AllTransactions(c), address, {})

\* Blockchain::get_utxos
get_utxos(c, address) == UtxosOfTxs(AllTransactions(c), address, SpentTxos(c))

RECURSIVE SumValues(_)
SumValues(utxos) ==
    IF utxos = <<>> THEN 0
    ELSE SumValues(SubSeq(utxos, 1, Len(utxos) - 1)) + Last(utxos).output.value

\* Blockchain::get_balance
get_balance(c, address) == SumValues(get_utxos(c, address))

\* The coinbase transaction /mine and the periodic miner build at time t
CoinbaseTx(c, address, t) ==
    NewTransaction(<<TxInput(ZeroTxid, Len(c), Str("coinbase", 0), EmptyString)>>,
                   <<TxOutput(REWARD, address)>>, t)

----------------------------------------------------------------------------
(* The states a node starts in *)

\* The clock at startup
NowStart == 2 * DIFFICULTY_ADJUSTMENT_INTERVAL * BLOCK_GENERATION_INTERVAL
\* Blockchain::new(difficulty): main passes 2, the tests pass 1
InitDifficulties == {1, 2}
\* The chains an earlier run persisted, blocks 5 seconds apart. The old one
\* has a genesis block twice the expected time old at startup, so the next
\* block comes at, or later than, twice the expected time after block 0; the
\* recent one has its last block mined at startup, so the next block can come
\* in less than half the expected time after block 0.
LoadedStart == NowStart - 2 * DIFFICULTY_ADJUSTMENT_INTERVAL * BLOCK_GENERATION_INTERVAL
RecentStart == NowStart - (DIFFICULTY_ADJUSTMENT_INTERVAL - 1) * 5
LoadedFiles ==
    {[difficulty |-> d, ts0 |-> LoadedStart, spacing |-> 5] : d \in InitDifficulties}
      \cup {[difficulty |-> 1, ts0 |-> RecentStart, spacing |-> 5]}
\* Blocks in a persisted chain: the next block is the first to adjust
LoadedLen == DIFFICULTY_ADJUSTMENT_INTERVAL
\* The miner wallet is generated at every start: an earlier run paid "kA".
EarlierMinerKey == "kA"

\* The chain a run builds by mining n - 1 blocks on its genesis block with an
\* empty pool, one block every `spacing` seconds from ts0 on.
RECURSIVE BuildChain(_, _, _, _, _)
BuildChain(n, d, ts0, spacing, key) ==
    IF n = 1 THEN <<create_genesis_block(d, ts0)>>
    ELSE LET c == BuildChain(n - 1, d, ts0, spacing, key)
             t == ts0 + (n - 1) * spacing
         IN  add_block(c, d, DefaultFractalType,
                       <<CoinbaseTx(c, GetAddress(key), t)>>, t).chain

LoadedChain(f) == BuildChain(LoadedLen, f.difficulty, f.ts0, f.spacing, EarlierMinerKey)

\* last: the handler, what it returned, and (history) whether the block or
\* transaction it was given was already in the chain or the pool
Call(op, ret, known) == [op |-> op, ret |-> ret, known |-> known]
NoCall == Call("none", "none", FALSE)

\* Blockchain::new with no file: a fresh genesis block
InitFresh ==
    \E d \in InitDifficulties :
        /\ chain = <<create_genesis_block(d, NowStart)>>
        /\ difficulty = d
        /\ file = <<>>

\* Blockchain::new with the file of an earlier run
InitLoaded ==
    \E f \in LoadedFiles :
        /\ chain = LoadedChain(f)
        /\ difficulty = f.difficulty
        /\ file = <<[chain |-> chain, difficulty |-> f.difficulty]>>

\* No task is inside a handler: the mutex is free
Unlocked ==
    /\ lock = "none"
    /\ pool_lock = "none"
    /\ pc = [t \in Tasks |-> "idle"]
    /\ work = [t \in Tasks |-> <<>>]

\* A node that runs alone: no peer, no connection, nothing in the channels;
\* its handlers are taken as single steps
NoPeers == [n \in Nodes |-> {}]
NoMessages == [n \in Nodes |-> <<>>]
NotMet == [local |-> 0, remote |-> 0]
Alone ==
    /\ peers = NoPeers
    /\ established = [n \in Nodes |-> FALSE]
    /\ p2p_message = NoMessages
    /\ to_p2p = NoMessages
    /\ gossip = NoMessages
    /\ remote = [chain |-> <<>>, difficulty |-> 0, panicked |-> FALSE]
    /\ met = NotMet
    /\ lost = 0
    /\ Unlocked

Init ==
    /\ InitFresh \/ InitLoaded
    /\ Alone
    /\ pool = <<>>
    /\ now = NowStart
    /\ panicked = FALSE
    /\ replaced = FALSE
    /\ last = NoCall
    /\ sentP2p = <<>>
    /\ sentHub = <<>>

\* A node started with no file, as the tests start it: Blockchain::new(1)
InitLedger ==
    /\ Alone
    /\ chain = <<create_genesis_block(1, NowStart)>>
    /\ difficulty = 1
    /\ file = <<>>
    /\ pool = <<>>
    /\ now = NowStart
    /\ panicked = FALSE
    /\ replaced = FALSE
    /\ last = NoCall
    /\ sentP2p = <<>>
    /\ sentHub = <<>>

\* The model stops growing a chain MaxNewBlocks past the length it started with.
MaxLen == (IF Len(chain) >= LoadedLen THEN LoadedLen ELSE 1) + MaxNewBlocks
CanGrow(k) == Len(chain) + k <= MaxLen

\* Blockchain::save_to_file
Saved(c, d) == <<[chain |-> c, difficulty |-> d]>>

BlockMsg(b) == [type |-> "Block", block |-> b]
TransactionMsg(tx) == [type |-> "Transaction", transaction |-> tx]
ChainResponseMsg(c, d) == [type |-> "ChainResponse", chain |-> c, difficulty |-> d]

----------------------------------------------------------------------------
(* The clock *)

Tick ==
    /\ ~panicked
    /\ now < NowStart + MaxTicks
    /\ now' = now + 1
    /\ UNCHANGED <<chain, difficulty, pool, file, panicked, replaced, last, sentP2p, sentHub>>

----------------------------------------------------------------------------
(* Local mining: POST /mine and the periodic miner *)

\* What both miners do under the locks: coinbase, drain the pool, add_block, save.
\* The mining step putting the coinbase after the pooled transactions
MineStep_coinbase_last(fractal_type, op, notify_hub) ==
    LET coinbase_tx == CoinbaseTx(chain, GetAddress(MinerKey), now)
        block_transactions == pool \o <<coinbase_tx>>
        r == add_block(chain, difficulty, fractal_type, block_transactions, now)
    IN  /\ ~panicked
        /\ CanGrow(1)
        /\ Mineable(difficulty)
        /\ chain' = r.chain
        /\ difficulty' = r.difficulty
        /\ pool' = <<>>
        /\ panicked' = r.panic
        /\ file' = IF r.panic THEN file ELSE Saved(r.chain, r.difficulty)
        /\ sentP2p' = IF r.panic THEN <<>> ELSE <<BlockMsg(r.block)>>
        /\ sentHub' = IF r.panic \/ ~notify_hub THEN <<>> ELSE <<r.block>>
        /\ last' = Call(op, IF r.panic THEN "panic" ELSE "200", FALSE)
        /\ UNCHANGED <<now, replaced>>

MineStep(fractal_type, op, notify_hub) ==
    LET coinbase_tx == CoinbaseTx(chain, GetAddress(MinerKey), now)
        block_transactions == <<coinbase_tx>> \o pool
        r == add_block(chain, difficulty, fractal_type, block_transactions, now)
    IN  /\ ~panicked
        /\ CanGrow(1)
        /\ Mineable(difficulty)
        /\ chain' = r.chain
        /\ difficulty' = r.difficulty
        /\ pool' = <<>>
        /\ panicked' = r.panic
        /\ file' = IF r.panic THEN file ELSE Saved(r.chain, r.difficulty)
        /\ sentP2p' = IF r.panic THEN <<>> ELSE <<BlockMsg(r.block)>>
        /\ sentHub' = IF r.panic \/ ~notify_hub THEN <<>> ELSE <<r.block>>
        /\ last' = Call(op, IF r.panic THEN "panic" ELSE "200", FALSE)
        /\ UNCHANGED <<now, replaced>>

\* The fractal parameters a /mine request may carry
MineRequestParams == {DefaultFractalType}

\* handlers.rs mine
MineHttp == \E ft \in MineRequestParams : MineStep(ft, "mine", FALSE)

\* main.rs, the interval branch of the dispatcher task
MinePeriodic == MineStep(DefaultFractalType, "periodic_mine", TRUE)

----------------------------------------------------------------------------
(* POST /transact *)

\* TakeUtxos stopping only when the UTXOs run out
RECURSIVE TakeUtxos_all(_, _, _, _)
TakeUtxos_all(utxos, amount, k, accumulated) ==
    IF k = Len(utxos) THEN [taken |-> k, accumulated |-> accumulated]
    ELSE TakeUtxos_all(utxos, amount, k + 1, accumulated + utxos[k + 1].output.value)

\* The loop over the sender's UTXOs: take them in order, stop after the first
\* one that brings the total to `amount`.  k UTXOs are taken so far.
RECURSIVE TakeUtxos(_, _, _, _)
TakeUtxos(utxos, amount, k, accumulated) ==
    IF k = Len(utxos) THEN [taken |-> k, accumulated |-> accumulated]
    ELSE LET acc == accumulated + utxos[k + 1].output.value
         IN  IF acc >= amount THEN [taken |-> k + 1, accumulated |-> acc]
             ELSE TakeUtxos(utxos, amount, k + 1, acc)

\* TransactResult without the check of the accumulated amount
TransactResult_unchecked(c, key, to, amount, t) ==
    LET sender_address == GetAddress(key)
        utxos == get_utxos(c, sender_address)
        took == TakeUtxos(utxos, amount, 0, 0)
        inputs == [i \in 1..took.taken |->
                      TxInput(utxos[i].txid, utxos[i].vout, EmptyString, EmptyString)]
        outputs == IF took.accumulated > amount
                   THEN <<TxOutput(amount, to),
                          TxOutput(took.accumulated - amount, sender_address)>>
                   ELSE <<TxOutput(amount, to)>>
        new_tx == Sign(NewTransaction(inputs, outputs, t), key)
    IN  IF ~Verify(new_tx) THEN [status |-> "500", tx |-> <<>>]
        ELSE [status |-> "200", tx |-> <<new_tx>>]

\* The transaction the handler builds and signs, or the error it answers with
TransactResult(c, key, to, amount, t) ==
    LET sender_address == GetAddress(key)
        utxos == get_utxos(c, sender_address)
        took == TakeUtxos(utxos, amount, 0, 0)
        inputs == [i \in 1..took.taken |->
                      TxInput(utxos[i].txid, utxos[i].vout, EmptyString, EmptyString)]
        outputs == IF took.accumulated > amount
                   THEN <<TxOutput(amount, to),
                          TxOutput(took.accumulated - amount, sender_address)>>
                   ELSE <<TxOutput(amount, to)>>
        new_tx == Sign(NewTransaction(inputs, outputs, t), key)
    IN  IF took.accumulated < amount THEN [status |-> "400 Not enough funds", tx |-> <<>>]
        ELSE IF ~Verify(new_tx) THEN [status |-> "500", tx |-> <<>>]
        ELSE [status |-> "200", tx |-> <<new_tx>>]

\* What /transact requests carry
Recipients == {GetAddress("kA")}
Amounts == {10, 60}

\* handlers.rs transact with a private key that does not decode
TransactBadKey ==
    /\ ~panicked
    /\ last' = Call("transact", "400 Invalid private key", FALSE)
    /\ sentP2p' = <<>>
    /\ sentHub' = <<>>
    /\ UNCHANGED <<chain, difficulty, pool, file, now, panicked, replaced>>

\* handlers.rs transact
Transact(key, to, amount) ==
    LET r == TransactResult(chain, key, to, amount, now)
    IN  /\ ~panicked
        /\ r.status = "200" => Len(pool) < MaxPool
        /\ pool' = pool \o r.tx
        /\ sentP2p' = [i \in DOMAIN r.tx |-> TransactionMsg(r.tx[i])]
        /\ sentHub' = <<>>
        /\ last' = Call("transact", r.status, FALSE)
        /\ UNCHANGED <<chain, difficulty, file, now, panicked, replaced>>

----------------------------------------------------------------------------
(* The dispatcher of inbound P2P messages (main.rs) *)

\* P2pMessage::Block
DeliverBlock(block) ==
    LET r == add_block_from_network(chain, difficulty, block, now)
    IN  /\ ~panicked
        /\ r.added => CanGrow(1)
        /\ chain' = r.chain
        /\ difficulty' = r.difficulty
        /\ panicked' = r.panic
        /\ sentHub' = IF r.added /\ ~r.panic THEN <<block>> ELSE <<>>
        /\ file' = IF r.panic THEN file ELSE Saved(r.chain, r.difficulty)
        /\ sentP2p' = <<>>
        /\ last' = Call("Block",
                         IF r.panic THEN "panic" ELSE IF r.added THEN "true" ELSE "false",
                         \E i \in DOMAIN chain : chain[i] = block)
        /\ UNCHANGED <<pool, now, replaced>>

\* The ChainRequest branch sending no reply
DeliverChainRequest_no_reply ==
    /\ ~panicked
    /\ sentP2p' = <<>>
    /\ sentHub' = <<>>
    /\ last' = Call("ChainRequest", "none", FALSE)
    /\ UNCHANGED <<chain, difficulty, pool, file, now, panicked, replaced>>

\* P2pMessage::ChainRequest
DeliverChainRequest ==
    /\ ~panicked
    /\ sentP2p' = <<ChainResponseMsg(chain, difficulty)>>
    /\ sentHub' = <<>>
    /\ last' = Call("ChainRequest", "none", FALSE)
    /\ UNCHANGED <<chain, difficulty, pool, file, now, panicked, replaced>>

\* The ChainResponse branch taking a snapshot that is as long as the chain
DeliverChainResponse_not_shorter(snapshot) ==
    LET longer == Len(snapshot.chain) >= Len(chain)
    IN  /\ ~panicked
        /\ chain' = IF longer THEN snapshot.chain ELSE chain
        /\ file' = IF longer THEN Saved(snapshot.chain, difficulty) ELSE file
        /\ replaced' = (replaced \/ longer)
        /\ sentP2p' = <<>>
        /\ sentHub' = <<>>
        /\ last' = Call("ChainResponse", IF longer THEN "replaced" ELSE "kept", FALSE)
        /\ UNCHANGED <<difficulty, pool, now, panicked>>

\* The ChainResponse branch taking the whole snapshot, difficulty included
DeliverChainResponse_whole_snapshot(snapshot) ==
    LET longer == Len(snapshot.chain) > Len(chain)
    IN  /\ ~panicked
        /\ chain' = IF longer THEN snapshot.chain ELSE chain
        /\ difficulty' = IF longer THEN snapshot.difficulty ELSE difficulty
        /\ file' = IF longer THEN Saved(snapshot.chain, snapshot.difficulty) ELSE file
        /\ replaced' = (replaced \/ longer)
        /\ sentP2p' = <<>>
        /\ sentHub' = <<>>
        /\ last' = Call("ChainResponse", IF longer THEN "replaced" ELSE "kept", FALSE)
        /\ UNCHANGED <<pool, now, panicked>>

\* The ChainResponse branch taking every snapshot that differs from the chain
DeliverChainResponse_any_other(snapshot) ==
    LET other == snapshot.chain # chain
    IN  /\ ~panicked
        /\ chain' = snapshot.chain
        /\ file' = IF other THEN Saved(snapshot.chain, difficulty) ELSE file
        /\ replaced' = (replaced \/ other)
        /\ sentP2p' = <<>>
        /\ sentHub' = <<>>
        /\ last' = Call("ChainResponse", IF other THEN "replaced" ELSE "kept", FALSE)
        /\ UNCHANGED <<difficulty, pool, now, panicked>>

\* P2pMessage::ChainResponse(snapshot): snapshot is a whole Blockchain
DeliverChainResponse(snapshot) ==
    LET longer == Len(snapshot.chain) > Len(chain)
    IN  /\ ~panicked
        /\ chain' = IF longer THEN snapshot.chain ELSE chain
        /\ file' = IF longer THEN Saved(snapshot.chain, difficulty) ELSE file
        /\ replaced' = (replaced \/ longer)
        /\ sentP2p' = <<>>
        /\ sentHub' = <<>>
        /\ last' = Call("ChainResponse", IF longer THEN "replaced" ELSE "kept", FALSE)
        /\ UNCHANGED <<difficulty, pool, now, panicked>>

\* The Transaction branch without the search of the pool for the id
DeliverTransaction_no_id_check(transaction) ==
    LET admit == Verify(transaction)
    IN  /\ ~panicked
        /\ admit => Len(pool) < MaxPool
        /\ pool' = IF admit THEN Append(pool, transaction) ELSE pool
        /\ sentP2p' = <<>>
        /\ sentHub' = <<>>
        /\ last' = Call("Transaction", IF admit THEN "admitted" ELSE "dropped",
                         \E i \in DOMAIN pool : pool[i].id = transaction.id)
        /\ UNCHANGED <<chain, difficulty, file, now, panicked, replaced>>

\* P2pMessage::Transaction
DeliverTransaction(transaction) ==
    LET admit == /\ Verify(transaction)
                 /\ ~\E i \in DOMAIN pool : pool[i].id = transaction.id
    IN  /\ ~panicked
        /\ admit => Len(pool) < MaxPool
        /\ pool' = IF admit THEN Append(pool, transaction) ELSE pool
        /\ sentP2p' = <<>>
        /\ sentHub' = <<>>
        /\ last' = Call("Transaction", IF admit THEN "admitted" ELSE "dropped",
                         \E i \in DOMAIN pool : pool[i].id = transaction.id)
        /\ UNCHANGED <<chain, difficulty, file, now, panicked, replaced>>

----------------------------------------------------------------------------
(* What the network delivers *)

PeerKey == "kA"

\* A block a peer mines at difficulty d on a block with hash `previous_hash`
PeerBlock(previous_hash, index, timestamp, transactions, d) ==
    mine_block(d, DefaultFractalType,
               [index |-> index, timestamp |-> timestamp, fractal |-> DefaultFractalType,
                transactions |-> transactions, previous_hash |-> previous_hash,
                hash |-> EmptyString, nonce |-> 0])

\* The transaction lists of inbound blocks: the peer's coinbase alone, or
\* followed by the transactions this node gossiped
ForeignTransactions(c, t) ==
    {<<CoinbaseTx(c, GetAddress(PeerKey), t)>>,
     <<CoinbaseTx(c, GetAddress(PeerKey), t)>> \o pool}

\* A block mined by a peer on the tip of c, meeting difficulty d
NextBlock(c, d, t, txs) == PeerBlock(Last(c).hash, Last(c).index + 1, t, txs, d)

\* An index far past the tip whose successor is a multiple of the interval
JumpIndex == 3 * DIFFICULTY_ADJUSTMENT_INTERVAL - 1

\* Blocks for the tip of c that break one rule of is_block_valid each
BadBlocksOn(c, d, t, txs) ==
    LET tip == Last(c)
        good == NextBlock(c, d, t, txs)
    IN  {PeerBlock(tip.hash, tip.index, t, txs, d),
         PeerBlock(tip.hash, tip.index + 2, t, txs, d),
         PeerBlock(tip.previous_hash, tip.index + 1, t, txs, d),
         PeerBlock(tip.hash, tip.index + 1, t, txs, 0),
         [good EXCEPT !.hash = Str("forged", d)],
         [good EXCEPT !.transactions = <<>>],
         NextBlock(c, d, Last(c).timestamp - 1, txs),
         NextBlock(c, d, now + FUTURE_TOLERANCE + 1, txs)}

\* Blocks for the tip of c at the two ends of the timestamps accepted
GoodBlocksOn(c, d, txs) ==
    {NextBlock(c, d, Last(c).timestamp, txs), NextBlock(c, d, now + FUTURE_TOLERANCE, txs)}

\* Inbound Block messages: new blocks for the tip, and the first and the last
\* two blocks of the chain again
ForeignBlocks ==
    UNION {GoodBlocksOn(chain, difficulty, txs) \cup BadBlocksOn(chain, difficulty, now, txs) :
             txs \in ForeignTransactions(chain, now)}
      \cup {chain[i] : i \in {1, Len(chain) - 1, Len(chain)} \cap DOMAIN chain}

\* Inbound ChainResponse snapshots: the chain itself, a shorter one, a chain
\* of the same length with another tip, chains one or two blocks longer, some
\* with a last block no node would accept, and the longer chain of a peer
\* with another genesis block.
ForeignChains ==
    LET txs(c) == <<CoinbaseTx(c, GetAddress(PeerKey), now)>>
        tip == Last(chain)
        shorter == SubSeq(chain, 1, Len(chain) - 1)
        good1 == Append(chain, NextBlock(chain, difficulty, tip.timestamp, txs(chain)))
        good2 == Append(good1, NextBlock(good1, difficulty, tip.timestamp, txs(good1)))
        bad == {PeerBlock(tip.hash, JumpIndex, now, txs(chain), difficulty),
                PeerBlock(tip.previous_hash, tip.index + 1, now, txs(chain), difficulty),
                [good1[Len(good1)] EXCEPT !.hash = Str("forged", difficulty)]}
        other == IF Len(chain) < LoadedLen
                 THEN {BuildChain(Len(chain) + 1, difficulty, now - Len(chain), 1, PeerKey)}
                 ELSE {}
        fork == IF shorter = <<>> THEN {}
                ELSE {Append(shorter, NextBlock(shorter, difficulty, now, txs(shorter)))}
    IN  {c \in {chain, shorter, good1, good2} \cup {Append(chain, b) : b \in bad}
                  \cup other \cup fork : Len(c) <= MaxLen}

ForeignSnapshots == {[chain |-> c, difficulty |-> difficulty + 1] : c \in ForeignChains}

\* A wallet that neither uses /transact on this node nor mines
OutsiderKey == "kX"

\* Inbound Transaction messages: a pool entry again; transactions a peer signs
\* that spend the first output paid to some wallet (its own or not), whole,
\* with an output changed after signing, and unsigned; a coinbase
\* transaction that pays an outsider.
ForeignTxs ==
    LET spend(key, owner) ==
            LET utxos == get_utxos(chain, GetAddress(owner))
            IN  IF utxos = <<>> THEN {}
                ELSE LET tx == NewTransaction(
                                  <<TxInput(utxos[1].txid, utxos[1].vout,
                                            EmptyString, EmptyString)>>,
                                  <<TxOutput(utxos[1].output.value, GetAddress(key))>>, now)
                         signed == Sign(tx, key)
                     IN  {signed, tx,
                          [signed EXCEPT !.outputs = <<TxOutput(1, GetAddress(key))>>]}
    IN  {pool[i] : i \in DOMAIN pool}
          \cup UNION {spend(PeerKey, owner) : owner \in Keys}
          \cup {CoinbaseTx(chain, GetAddress(OutsiderKey), now)}

----------------------------------------------------------------------------
(* The node *)

\* The node with no transaction traffic: the pool stays empty.
NextChain ==
    \/ /\ Tick
       /\ UNCHANGED <<netVars, lockVars>>
    \/ /\ MineHttp
       /\ UNCHANGED <<netVars, lockVars>>
    \/ /\ MinePeriodic
       /\ UNCHANGED <<netVars, lockVars>>
    \/ /\ Mineable(difficulty) /\ \E b \in ForeignBlocks : DeliverBlock(b)
       /\ UNCHANGED <<netVars, lockVars>>
    \/ /\ DeliverChainRequest
       /\ UNCHANGED <<netVars, lockVars>>
    \/ /\ Mineable(difficulty) /\ \E s \in ForeignSnapshots : DeliverChainResponse(s)
       /\ UNCHANGED <<netVars, lockVars>>

SpecChain == Init /\ [][NextChain]_vars

\* The node with transaction traffic, from the HTTP API and from peers.
NextLedger ==
    \/ /\ Tick
       /\ UNCHANGED <<netVars, lockVars>>
    \/ /\ MineHttp
       /\ UNCHANGED <<netVars, lockVars>>
    \/ /\ MinePeriodic
       /\ UNCHANGED <<netVars, lockVars>>
    \/ /\ TransactBadKey
       /\ UNCHANGED <<netVars, lockVars>>
    \/ /\ \E key \in Keys, to \in Recipients, amount \in Amounts : Transact(key, to, amount)
       /\ UNCHANGED <<netVars, lockVars>>
    \/ /\ \E tx \in ForeignTxs : DeliverTransaction(tx)
       /\ UNCHANGED <<netVars, lockVars>>

SpecLedger == InitLedger /\ [][NextLedger]_vars

----------------------------------------------------------------------------
(* Startup: Blockchain::new reads the file the last run left *)

\* A file that does not parse as a Blockchain
CorruptFile == <<[corrupt |-> TRUE]>>
FileParses(f) == f # <<>> /\ "chain" \in DOMAIN f[1]

\* Blockchain::new ignoring the persisted difficulty
Blockchain_new_own_difficulty(d, f, t) ==
    IF FileParses(f)
    THEN IF f[1].chain = <<>>
         THEN [chain |-> <<create_genesis_block(d, t)>>, difficulty |-> d]
         ELSE [chain |-> f[1].chain, difficulty |-> d]
    ELSE [chain |-> <<create_genesis_block(d, t)>>, difficulty |-> d]

\* Blockchain::new(d) at time t with file content f
Blockchain_new(d, f, t) ==
    IF FileParses(f)
    THEN IF f[1].chain = <<>>
         THEN [chain |-> <<create_genesis_block(f[1].difficulty, t)>>,
               difficulty |-> f[1].difficulty]
         ELSE [chain |-> f[1].chain, difficulty |-> f[1].difficulty]
    ELSE [chain |-> <<create_genesis_block(d, t)>>, difficulty |-> d]

\* What the file may hold when the process starts: nothing, bytes that do
\* not parse, a Blockchain with no block, the chain of an earlier run
StartupFiles ==
    {<<>>, CorruptFile}
      \cup {Saved(<<>>, d) : d \in InitDifficulties}
      \cup {Saved(LoadedChain(f), f.difficulty) : f \in LoadedFiles}

\* The process is not running: there is no Blockchain in memory
Down == Call("exit", "none", FALSE)

InitStartup ==
    /\ Alone
    /\ file \in StartupFiles
    /\ chain = <<>>
    /\ difficulty = 0
    /\ pool = <<>>
    /\ now = NowStart
    /\ panicked = FALSE
    /\ replaced = FALSE
    /\ last = Down
    /\ sentP2p = <<>>
    /\ sentHub = <<>>

\* main: Blockchain::new(d), an empty pool
Start(d) ==
    LET r == Blockchain_new(d, file, now)
    IN  /\ last = Down
        /\ chain' = r.chain
        /\ difficulty' = r.difficulty
        /\ pool' = <<>>
        /\ last' = Call("new", IF FileParses(file) THEN "loaded" ELSE "fresh", FALSE)
        /\ UNCHANGED <<file, now, panicked, replaced, sentP2p, sentHub>>

\* The process ends: the memory is lost, the file stays
Stop ==
    /\ last # Down
    /\ chain' = <<>>
    /\ difficulty' = 0
    /\ pool' = <<>>
    /\ panicked' = FALSE
    /\ last' = Down
    /\ sentP2p' = <<>>
    /\ sentHub' = <<>>
    /\ UNCHANGED <<file, now, replaced>>

\* Runs of a node that is started, mines, is stopped and started again
NextStartup ==
    \/ /\ \E d \in InitDifficulties : Start(d)
       /\ UNCHANGED <<netVars, lockVars>>
    \/ /\ Stop
       /\ UNCHANGED <<netVars, lockVars>>
    \/ /\ Tick
       /\ UNCHANGED <<netVars, lockVars>>
    \/ /\ last # Down /\ MineHttp
       /\ UNCHANGED <<netVars, lockVars>>

SpecStartup == InitStartup /\ [][NextStartup]_vars

----------------------------------------------------------------------------
(* Two nodes: the P2p task of each (p2p.rs run) and the dispatchers *)

ChainRequestMsg == [type |-> "ChainRequest"]

\* Messages a channel holds at most; a step that would add one more waits
MaxQueue == 1
\* Expired and ConnectionClosed events in a run
MaxLost == 1
\* Blocks in the chain the other node starts with
RemoteLens == {1, 2}

\* The other node mined its chain itself, on its own genesis block
RemoteChain(n) == BuildChain(n, 1, NowStart - n, 1, PeerKey)

InitNet ==
    /\ chain = <<create_genesis_block(1, NowStart)>>
    /\ difficulty = 1
    /\ file = <<>>
    /\ pool = <<>>
    /\ now = NowStart
    /\ panicked = FALSE
    /\ replaced = FALSE
    /\ last = NoCall
    /\ sentP2p = <<>>
    /\ sentHub = <<>>
    /\ peers = NoPeers
    /\ established = [n \in Nodes |-> FALSE]
    /\ p2p_message = NoMessages
    /\ to_p2p = NoMessages
    /\ gossip = NoMessages
    /\ \E n \in RemoteLens :
           remote = [chain |-> RemoteChain(n), difficulty |-> 1, panicked |-> FALSE]
    /\ met = NotMet
    /\ lost = 0
    /\ Unlocked

\* The lengths of the two chains at the first moment each node has the
\* other in its peer set
Meet(newPeers) ==
    IF met = NotMet /\ \A n \in Nodes : Other(n) \in newPeers[n]
    THEN [local |-> Len(chain), remote |-> Len(remote.chain)]
    ELSE met

\* What both new-peer branches do: peers.insert(peer_id), then
\* message_sender.send(ChainRequest), the channel to the node's own dispatcher
NewPeer(n) ==
    /\ Len(p2p_message[n]) < MaxQueue
    /\ peers' = [peers EXCEPT ![n] = @ \cup {Other(n)}]
    /\ p2p_message' = [p2p_message EXCEPT ![n] = Append(@, ChainRequestMsg)]
    /\ met' = Meet(peers')
    /\ UNCHANGED <<to_p2p, gossip, remote, lost>>

\* SwarmEvent mdns::Event::Discovered at node n
Discovered(n) ==
    /\ Other(n) \notin peers[n]
    /\ NewPeer(n)
    /\ UNCHANGED established
    /\ UNCHANGED nodeVars

\* SwarmEvent::ConnectionEstablished at node n
ConnectionEstablished(n) ==
    /\ ~established[n]
    /\ established' = [established EXCEPT ![n] = TRUE]
    /\ NewPeer(n)
    /\ UNCHANGED nodeVars

\* SwarmEvent mdns::Event::Expired at node n
Expired(n) ==
    /\ Other(n) \in peers[n]
    /\ peers' = [peers EXCEPT ![n] = @ \ {Other(n)}]
    /\ lost < MaxLost
    /\ lost' = lost + 1
    /\ UNCHANGED <<established, p2p_message, to_p2p, gossip, remote, met>>
    /\ UNCHANGED nodeVars

\* SwarmEvent::ConnectionClosed at node n
ConnectionClosed(n) ==
    /\ established[n]
    /\ established' = [established EXCEPT ![n] = FALSE]
    /\ peers' = [peers EXCEPT ![n] = @ \ {Other(n)}]
    /\ lost < MaxLost
    /\ lost' = lost + 1
    /\ UNCHANGED <<p2p_message, to_p2p, gossip, remote, met>>
    /\ UNCHANGED nodeVars

\* The outbound branch publishing although gossipsub has no peer
Published_without_peers(n) ==
    /\ to_p2p[n] # <<>>
    /\ Len(gossip[Other(n)]) < MaxQueue
    /\ to_p2p' = [to_p2p EXCEPT ![n] = Tail(@)]
    /\ gossip' = [gossip EXCEPT ![Other(n)] = Append(@, Head(to_p2p[n]))]
    /\ UNCHANGED <<peers, established, p2p_message, remote, met, lost>>
    /\ UNCHANGED nodeVars

\* message_receiver.recv() at node n, gossipsub.publish returns Ok: the
\* message is on its way to the other node
Published(n) ==
    /\ to_p2p[n] # <<>>
    /\ established[n]
    /\ Len(gossip[Other(n)]) < MaxQueue
    /\ to_p2p' = [to_p2p EXCEPT ![n] = Tail(@)]
    /\ gossip' = [gossip EXCEPT ![Other(n)] = Append(@, Head(to_p2p[n]))]
    /\ UNCHANGED <<peers, established, p2p_message, remote, met, lost>>
    /\ UNCHANGED nodeVars

\* message_receiver.recv() at node n, gossipsub has no peer or publish returns
\* Err: the error is logged and the message is gone
PublishFailed(n) ==
    /\ to_p2p[n] # <<>>
    /\ to_p2p' = [to_p2p EXCEPT ![n] = Tail(@)]
    /\ UNCHANGED <<peers, established, p2p_message, gossip, remote, met, lost>>
    /\ UNCHANGED nodeVars

Publish(n) == Published(n) \/ PublishFailed(n)

\* SwarmEvent gossipsub::Event::Message at node n: message_sender.send(msg)
Received(n) ==
    /\ gossip[n] # <<>>
    /\ Len(p2p_message[n]) < MaxQueue
    /\ gossip' = [gossip EXCEPT ![n] = Tail(@)]
    /\ p2p_message' = [p2p_message EXCEPT ![n] = Append(@, Head(gossip[n]))]
    /\ UNCHANGED <<peers, established, to_p2p, remote, met, lost>>
    /\ UNCHANGED nodeVars

\* The handlers of this node send on to_p2p what sentP2p records
Sent == to_p2p' = [to_p2p EXCEPT !["local"] = @ \o sentP2p']

\* POST /mine at this node
MineLocal ==
    /\ Len(to_p2p["local"]) < MaxQueue
    /\ MineHttp
    /\ Sent
    /\ UNCHANGED <<peers, established, p2p_message, gossip, remote, met, lost>>

\* The dispatcher of this node taking the newest message first
DispatchLocal_newest_first ==
    /\ p2p_message["local"] # <<>>
    /\ Len(to_p2p["local"]) < MaxQueue
    /\ LET message == Last(p2p_message["local"])
       IN  CASE message.type = "ChainRequest" -> DeliverChainRequest
             [] message.type = "ChainResponse" ->
                    DeliverChainResponse([chain |-> message.chain,
                                          difficulty |-> message.difficulty])
             [] message.type = "Block" -> DeliverBlock(message.block)
             [] message.type = "Transaction" -> DeliverTransaction(message.transaction)
    /\ p2p_message' = [p2p_message EXCEPT !["local"] = SubSeq(@, 1, Len(@) - 1)]
    /\ Sent
    /\ UNCHANGED <<peers, established, gossip, remote, met, lost>>

\* p2p_message_receiver.recv() in the dispatcher of this node
DispatchLocal ==
    /\ p2p_message["local"] # <<>>
    /\ Len(to_p2p["local"]) < MaxQueue
    /\ LET message == Head(p2p_message["local"])
       IN  CASE message.type = "ChainRequest" -> DeliverChainRequest
             [] message.type = "ChainResponse" ->
                    DeliverChainResponse([chain |-> message.chain,
                                          difficulty |-> message.difficulty])
             [] message.type = "Block" -> DeliverBlock(message.block)
             [] message.type = "Transaction" -> DeliverTransaction(message.transaction)
    /\ p2p_message' = [p2p_message EXCEPT !["local"] = Tail(@)]
    /\ Sent
    /\ UNCHANGED <<peers, established, gossip, remote, met, lost>>

\* p2p_message_receiver.recv() in the dispatcher of the other node; its
\* pool is not modelled, no Transaction reaches it
DispatchRemote ==
    /\ p2p_message["remote"] # <<>>
    /\ Len(to_p2p["remote"]) < MaxQueue
    /\ ~remote.panicked
    /\ LET message == Head(p2p_message["remote"])
       IN  CASE message.type = "ChainRequest" ->
                    /\ to_p2p' = [to_p2p EXCEPT !["remote"] =
                                     Append(@, ChainResponseMsg(remote.chain,
                                                                remote.difficulty))]
                    /\ UNCHANGED remote
             [] message.type = "ChainResponse" ->
                    /\ remote' = IF Len(message.chain) > Len(remote.chain)
                                 THEN [remote EXCEPT !.chain = message.chain]
                                 ELSE remote
                    /\ UNCHANGED to_p2p
             [] message.type = "Block" ->
                    LET r == add_block_from_network(remote.chain, remote.difficulty,
                                                    message.block, now)
                    IN  /\ remote' = [chain |-> r.chain, difficulty |-> r.difficulty,
                                      panicked |-> r.panic]
                        /\ UNCHANGED to_p2p
    /\ p2p_message' = [p2p_message EXCEPT !["remote"] = Tail(@)]
    /\ UNCHANGED <<peers, established, gossip, met, lost>>
    /\ UNCHANGED nodeVars

NextNet ==
    \/ /\ \E n \in Nodes : Discovered(n)
       /\ UNCHANGED lockVars
    \/ /\ \E n \in Nodes : ConnectionEstablished(n)
       /\ UNCHANGED lockVars
    \/ /\ \E n \in Nodes : Expired(n)
       /\ UNCHANGED lockVars
    \/ /\ \E n \in Nodes : ConnectionClosed(n)
       /\ UNCHANGED lockVars
    \/ /\ \E n \in Nodes : Published(n)
       /\ UNCHANGED lockVars
    \/ /\ \E n \in Nodes : PublishFailed(n)
       /\ UNCHANGED lockVars
    \/ /\ \E n \in Nodes : Received(n)
       /\ UNCHANGED lockVars
    \/ /\ MineLocal
       /\ UNCHANGED lockVars
    \/ /\ DispatchLocal
       /\ UNCHANGED lockVars
    \/ /\ DispatchRemote
       /\ UNCHANGED lockVars

\* Every task that can take a step eventually takes one, and a node that has
\* no connection to the other one gets one; the other events of the swarm and
\* the /mine requests come when they come.
FairNet ==
    /\ \A n \in Nodes : WF_vars(ConnectionEstablished(n) /\ UNCHANGED lockVars)
    /\ \A n \in Nodes : WF_vars(Publish(n) /\ UNCHANGED lockVars)
    /\ \A n \in Nodes : WF_vars(Received(n) /\ UNCHANGED lockVars)
    /\ WF_vars(DispatchLocal /\ UNCHANGED lockVars)
    /\ WF_vars(DispatchRemote /\ UNCHANGED lockVars)

SpecNet == InitNet /\ [][NextNet]_vars /\ FairNet

----------------------------------------------------------------------------
(* One node whose dispatcher is behind: inbound messages wait in the channel *)

\* Messages the inbound channel holds at most in these runs
MaxInbox == 2

\* What peers publish for the node as it is now: a ChainRequest, a
\* transaction and, while the model lets the chain grow, a block mined on its
\* tip and a snapshot one block longer than its chain
InboundMessages ==
    LET txs == <<CoinbaseTx(chain, GetAddress(PeerKey), now)>>
        block == NextBlock(chain, difficulty, now, txs)
        longer == Append(chain, NextBlock(chain, difficulty, Last(chain).timestamp, txs))
    IN  {ChainRequestMsg,
         TransactionMsg(CoinbaseTx(chain, GetAddress(OutsiderKey), now))}
          \cup (IF CanGrow(1)
                THEN {BlockMsg(block), ChainResponseMsg(longer, difficulty + 1)}
                ELSE {})

\* SwarmEvent gossipsub::Event::Message at this node: message_sender.send(msg)
Arrive(message) ==
    /\ Len(p2p_message["local"]) < MaxInbox
    /\ p2p_message' = [p2p_message EXCEPT !["local"] = Append(@, message)]
    /\ UNCHANGED <<peers, established, to_p2p, gossip, remote, met, lost>>
    /\ UNCHANGED nodeVars

\* The interval branch of the dispatcher task at this node
MinePeriodicLocal ==
    /\ Len(to_p2p["local"]) < MaxQueue
    /\ MinePeriodic
    /\ Sent
    /\ UNCHANGED <<peers, established, p2p_message, gossip, remote, met, lost>>

NextInbox ==
    \/ /\ \E message \in InboundMessages : Arrive(message)
       /\ UNCHANGED lockVars
    \/ /\ DispatchLocal
       /\ UNCHANGED lockVars
    \/ /\ MinePeriodicLocal
       /\ UNCHANGED lockVars
    \/ /\ PublishFailed("local")
       /\ UNCHANGED lockVars

SpecInbox == InitLedger /\ [][NextInbox]_vars

----------------------------------------------------------------------------
(* The blockchain mutex: the handlers of one node, statement by statement *)

\* The tasks that mine
Miners == {"mine", "dispatcher"}

\* The positions at which a task is between lock() and the drop of the guard
Holding == {"locked", "mining", "mined", "pushed", "saved",
            "validating", "added", "rejected", "notified", "checked",
            "comparing", "replaced", "kept", "dead"}

\* blockchain.lock().unwrap() without waiting for the mutex
Lock_unchecked(t) ==
    /\ ~panicked
    /\ pc[t] \in {"idle", "received", "received_chain"}
    /\ lock' = t
    /\ pc' = [pc EXCEPT ![t] = CASE pc[t] = "idle" -> "locked"
                                 [] pc[t] = "received" -> "validating"
                                 [] pc[t] = "received_chain" -> "comparing"]
    /\ UNCHANGED work
    /\ UNCHANGED nodeVars

\* blockchain.lock().unwrap() in task t: granted when no task holds the mutex
Lock(t) ==
    /\ ~panicked
    /\ lock = "none"
    /\ pc[t] \in {"idle", "received", "received_chain"}
    /\ lock' = t
    /\ pc' = [pc EXCEPT ![t] = CASE pc[t] = "idle" -> "locked"
                                 [] pc[t] = "received" -> "validating"
                                 [] pc[t] = "received_chain" -> "comparing"]
    /\ UNCHANGED work
    /\ UNCHANGED nodeVars

\* mine and the interval branch, under the lock: the coinbase transaction, the
\* pool drained, and the block add_block hands to Miner::mine_block
NewBlock(t) ==
    LET coinbase_tx == CoinbaseTx(chain, GetAddress(MinerKey), now)
        previous_block == Last(chain)
    IN  /\ t \in Miners
        /\ pc[t] = "locked"
        /\ CanGrow(1)
        /\ Mineable(difficulty)
        /\ work' = [work EXCEPT ![t] =
                       [index |-> previous_block.index + 1, timestamp |-> now,
                        fractal |-> DefaultFractalType,
                        transactions |-> <<coinbase_tx>> \o pool,
                        previous_hash |-> previous_block.hash,
                        hash |-> EmptyString, nonce |-> 0]]
        /\ pool' = <<>>
        /\ pc' = [pc EXCEPT ![t] = "mining"]
        /\ UNCHANGED <<chain, difficulty, file, now, panicked, replaced, last,
                       sentP2p, sentHub, lock>>

\* One turn of the loop of Miner::mine_block
Attempt(t) ==
    LET b == [work[t] EXCEPT !.fractal = Generate(DefaultFractalType, work[t].nonce)]
        hash == CalculateHash(b)
    IN  /\ pc[t] = "mining"
        /\ IF StartsWithZeros(hash, difficulty)
           THEN /\ work' = [work EXCEPT ![t] = [b EXCEPT !.hash = hash]]
                /\ pc' = [pc EXCEPT ![t] = "mined"]
           ELSE /\ work' = [work EXCEPT ![t] = [b EXCEPT !.nonce = @ + 1]]
                /\ UNCHANGED pc
        /\ UNCHANGED lock
        /\ UNCHANGED nodeVars

\* add_block after the search: chain.push, adjust_difficulty
Push(t) ==
    LET pushed == Append(chain, work[t])
        adj == adjust_difficulty(pushed, difficulty)
    IN  /\ pc[t] = "mined"
        /\ chain' = pushed
        /\ difficulty' = adj.difficulty
        /\ panicked' = adj.panic
        /\ pc' = [pc EXCEPT ![t] = IF adj.panic THEN "dead" ELSE "pushed"]
        /\ UNCHANGED <<pool, file, now, replaced, last, sentP2p, sentHub, lock, work>>

\* save_to_file in mine and in the interval branch
Save(t) ==
    /\ pc[t] = "pushed"
    /\ file' = Saved(chain, difficulty)
    /\ pc' = [pc EXCEPT ![t] = "saved"]
    /\ UNCHANGED <<chain, difficulty, pool, now, panicked, replaced, last,
                   sentP2p, sentHub, lock, work>>

\* mine: to_p2p.send(Block), then the response; the guards drop on return
MineReturn ==
    /\ pc["mine"] = "saved"
    /\ sentP2p' = <<BlockMsg(work["mine"])>>
    /\ sentHub' = <<>>
    /\ last' = Call("mine", "200", FALSE)
    /\ lock' = "none"
    /\ pc' = [pc EXCEPT !["mine"] = "idle"]
    /\ work' = [work EXCEPT !["mine"] = <<>>]
    /\ UNCHANGED <<chain, difficulty, pool, file, now, panicked, replaced>>

\* The interval branch: the guards drop at the end of the inner block
PeriodicUnlock ==
    /\ pc["dispatcher"] = "saved"
    /\ lock' = "none"
    /\ pc' = [pc EXCEPT !["dispatcher"] = "released"]
    /\ UNCHANGED work
    /\ UNCHANGED nodeVars

\* The interval branch: hub.do_send(BroadcastBlock), to_p2p.send(Block)
PeriodicBroadcast ==
    /\ pc["dispatcher"] = "released"
    /\ sentHub' = <<work["dispatcher"]>>
    /\ sentP2p' = <<BlockMsg(work["dispatcher"])>>
    /\ last' = Call("periodic_mine", "200", FALSE)
    /\ pc' = [pc EXCEPT !["dispatcher"] = "idle"]
    /\ work' = [work EXCEPT !["dispatcher"] = <<>>]
    /\ UNCHANGED <<chain, difficulty, pool, file, now, panicked, replaced, lock>>

\* The dispatcher takes a Block message from the channel
TakeBlock(block) ==
    /\ ~panicked
    /\ pc["dispatcher"] = "idle"
    /\ CanGrow(1)
    /\ work' = [work EXCEPT !["dispatcher"] = block]
    /\ pc' = [pc EXCEPT !["dispatcher"] = "received"]
    /\ UNCHANGED lock
    /\ UNCHANGED nodeVars

\* The Block branch under the lock: add_block_from_network
AddFromNetwork ==
    LET block == work["dispatcher"]
        r == add_block_from_network(chain, difficulty, block, now)
    IN  /\ pc["dispatcher"] = "validating"
        /\ chain' = r.chain
        /\ difficulty' = r.difficulty
        /\ panicked' = r.panic
        /\ pc' = [pc EXCEPT !["dispatcher"] =
                     IF r.panic THEN "dead" ELSE IF r.added THEN "added" ELSE "rejected"]
        /\ UNCHANGED <<pool, file, now, replaced, last, sentP2p, sentHub, lock, work>>

\* The Block branch: if added, hub.do_send(BroadcastBlock)
NotifyHub ==
    /\ pc["dispatcher"] \in {"added", "rejected"}
    /\ sentHub' = IF pc["dispatcher"] = "added" THEN <<work["dispatcher"]>> ELSE <<>>
    /\ sentP2p' = <<>>
    /\ pc' = [pc EXCEPT !["dispatcher"] =
                 IF pc["dispatcher"] = "added" THEN "notified" ELSE "checked"]
    /\ UNCHANGED <<chain, difficulty, pool, file, now, panicked, replaced, last, lock, work>>

\* The Block branch: save_to_file, then the guard drops at the end of the arm
SaveAndUnlock ==
    /\ pc["dispatcher"] \in {"notified", "checked"}
    /\ file' = Saved(chain, difficulty)
    /\ last' = Call("Block", IF pc["dispatcher"] = "notified" THEN "true" ELSE "false",
                     FALSE)
    /\ lock' = "none"
    /\ pc' = [pc EXCEPT !["dispatcher"] = "idle"]
    /\ work' = [work EXCEPT !["dispatcher"] = <<>>]
    /\ UNCHANGED <<chain, difficulty, pool, now, panicked, replaced, sentP2p, sentHub>>

\* The dispatcher takes a ChainResponse message from the channel
TakeChainResponse(snapshot) ==
    /\ ~panicked
    /\ pc["dispatcher"] = "idle"
    /\ work' = [work EXCEPT !["dispatcher"] = snapshot]
    /\ pc' = [pc EXCEPT !["dispatcher"] = "received_chain"]
    /\ UNCHANGED lock
    /\ UNCHANGED nodeVars

\* The ChainResponse branch under the lock: the longer chain is taken
Replace ==
    LET longer == Len(work["dispatcher"].chain) > Len(chain)
    IN  /\ pc["dispatcher"] = "comparing"
        /\ chain' = IF longer THEN work["dispatcher"].chain ELSE chain
        /\ replaced' = (replaced \/ longer)
        /\ pc' = [pc EXCEPT !["dispatcher"] = IF longer THEN "replaced" ELSE "kept"]
        /\ UNCHANGED <<difficulty, pool, file, now, panicked, last, sentP2p, sentHub,
                       lock, work>>

\* The ChainResponse branch: save_to_file if the chain was replaced, then the
\* guard drops at the end of the arm
ReplaceUnlock ==
    /\ pc["dispatcher"] \in {"replaced", "kept"}
    /\ file' = IF pc["dispatcher"] = "replaced" THEN Saved(chain, difficulty) ELSE file
    /\ last' = Call("ChainResponse",
                     IF pc["dispatcher"] = "replaced" THEN "replaced" ELSE "kept", FALSE)
    /\ sentP2p' = <<>>
    /\ sentHub' = <<>>
    /\ lock' = "none"
    /\ pc' = [pc EXCEPT !["dispatcher"] = "idle"]
    /\ work' = [work EXCEPT !["dispatcher"] = <<>>]
    /\ UNCHANGED <<chain, difficulty, pool, now, panicked, replaced>>

\* get_blocks: the chain is cloned for the response, the guard drops on return
BlocksReturn ==
    /\ pc["blocks"] = "locked"
    /\ last' = Call("blocks", "200", FALSE)
    /\ sentP2p' = <<>>
    /\ sentHub' = <<>>
    /\ lock' = "none"
    /\ pc' = [pc EXCEPT !["blocks"] = "idle"]
    /\ UNCHANGED <<chain, difficulty, pool, file, now, panicked, replaced, work>>

\* The blocks peers gossip for the node as it is now
GossipedBlocks ==
    {NextBlock(chain, difficulty, now, <<CoinbaseTx(chain, GetAddress(PeerKey), now)>>)}

\* The snapshots peers push to the node as it is now: one block longer than
\* its chain, while the model lets the chain grow
PushedSnapshots ==
    LET txs == <<CoinbaseTx(chain, GetAddress(PeerKey), now)>>
    IN  IF CanGrow(1)
        THEN {[chain |-> Append(chain, NextBlock(chain, difficulty,
                                                 Last(chain).timestamp, txs)),
               difficulty |-> difficulty + 1]}
        ELSE {}

NextLock ==
    \/ /\ \E t \in Tasks : Lock(t)
       /\ UNCHANGED <<netVars, pool_lock>>
    \/ /\ \E t \in Miners : NewBlock(t)
       /\ UNCHANGED <<netVars, pool_lock>>
    \/ /\ \E t \in Miners : Attempt(t)
       /\ UNCHANGED <<netVars, pool_lock>>
    \/ /\ \E t \in Miners : Push(t)
       /\ UNCHANGED <<netVars, pool_lock>>
    \/ /\ \E t \in Miners : Save(t)
       /\ UNCHANGED <<netVars, pool_lock>>
    \/ /\ MineReturn
       /\ UNCHANGED <<netVars, pool_lock>>
    \/ /\ PeriodicUnlock
       /\ UNCHANGED <<netVars, pool_lock>>
    \/ /\ PeriodicBroadcast
       /\ UNCHANGED <<netVars, pool_lock>>
    \/ /\ \E block \in GossipedBlocks : TakeBlock(block)
       /\ UNCHANGED <<netVars, pool_lock>>
    \/ /\ AddFromNetwork
       /\ UNCHANGED <<netVars, pool_lock>>
    \/ /\ NotifyHub
       /\ UNCHANGED <<netVars, pool_lock>>
    \/ /\ SaveAndUnlock
       /\ UNCHANGED <<netVars, pool_lock>>
    \/ /\ \E snapshot \in PushedSnapshots : TakeChainResponse(snapshot)
       /\ UNCHANGED <<netVars, pool_lock>>
    \/ /\ Replace
       /\ UNCHANGED <<netVars, pool_lock>>
    \/ /\ ReplaceUnlock
       /\ UNCHANGED <<netVars, pool_lock>>
    \/ /\ BlocksReturn
       /\ UNCHANGED <<netVars, pool_lock>>

SpecLock == Init /\ [][NextLock]_vars

----------------------------------------------------------------------------
(* POST /transact and POST /mine alone, with every amount a request may carry *)

\* amount is a u64: zero is an amount too
AnyAmounts == Amounts \cup {0}

NextTransact ==
    \/ /\ MineHttp
       /\ UNCHANGED <<netVars, lockVars>>
    \/ /\ \E key \in Keys, to \in Recipients, amount \in AnyAmounts :
              Transact(key, to, amount)
       /\ UNCHANGED <<netVars, lockVars>>

SpecTransact == InitLedger /\ [][NextTransact]_vars

----------------------------------------------------------------------------
(* One node with every kind of traffic: /mine, /transact and the four inbound *)
(* messages                                                                   *)

\* A transaction a peer signs with its own key that spends the first output
\* paid to `owner` and pays out twice its value
InflatedTx(owner) ==
    LET utxos == get_utxos(chain, GetAddress(owner))
    IN  IF utxos = <<>> THEN {}
        ELSE {Sign(NewTransaction(<<TxInput(utxos[1].txid, utxos[1].vout,
                                            EmptyString, EmptyString)>>,
                                  <<TxOutput(2 * utxos[1].output.value,
                                             GetAddress(PeerKey))>>, now),
                   PeerKey)}

\* Inbound Transaction messages at this node: a pool entry again, a coinbase
\* transaction that pays an outsider, transactions that pay out more than
\* they spend
InboundTxs ==
    {pool[i] : i \in DOMAIN pool}
      \cup {CoinbaseTx(chain, GetAddress(OutsiderKey), now)}
      \cup InflatedTx(PeerKey) \cup InflatedTx(MinerKey)

\* Inbound Block messages at this node: blocks a peer mined on the tip, with
\* its coinbase alone or followed by the transactions this node gossiped, and
\* the tip again
InboundBlocks ==
    UNION {GoodBlocksOn(chain, difficulty, txs) : txs \in ForeignTransactions(chain, now)}
      \cup {Last(chain)}

\* Inbound ChainResponse messages at this node: its own chain, the chain of a
\* peer that is one block behind, the chain of a peer that is one block ahead
\* on the same tip, and the longer chain of a peer that never saw this node's
\* blocks
InboundSnapshots ==
    LET txs == <<CoinbaseTx(chain, GetAddress(PeerKey), now)>>
        behind == SubSeq(chain, 1, Len(chain) - 1)
        ahead == Append(chain, NextBlock(chain, difficulty, Last(chain).timestamp, txs))
        apart == BuildChain(Len(chain) + 1, difficulty, now - Len(chain), 1, PeerKey)
    IN  {[chain |-> c, difficulty |-> difficulty + 1] :
            c \in {x \in {chain, behind, ahead, apart} : Len(x) \in 1..MaxLen}}

\* What /transact requests carry at this node
NodeAmount == 10

NextNode ==
    \/ /\ MineHttp
       /\ UNCHANGED <<netVars, lockVars>>
    \/ /\ \E to \in Recipients : Transact(MinerKey, to, NodeAmount)
       /\ UNCHANGED <<netVars, lockVars>>
    \/ /\ \E tx \in InboundTxs : DeliverTransaction(tx)
       /\ UNCHANGED <<netVars, lockVars>>
    \/ /\ \E b \in InboundBlocks : DeliverBlock(b)
       /\ UNCHANGED <<netVars, lockVars>>
    \/ /\ DeliverChainRequest
       /\ UNCHANGED <<netVars, lockVars>>
    \/ /\ \E s \in InboundSnapshots : DeliverChainResponse(s)
       /\ UNCHANGED <<netVars, lockVars>>

SpecNode == InitLedger /\ [][NextNode]_vars

----------------------------------------------------------------------------
(* A node that runs on a persisted chain meets a node that has just started *)

\* This node loaded the chain and the difficulty of an earlier run; the other
\* node has the genesis block it mined at the difficulty it was started with.
InitFollow ==
    /\ InitLoaded
    /\ pool = <<>>
    /\ now = NowStart
    /\ panicked = FALSE
    /\ replaced = FALSE
    /\ last = NoCall
    /\ sentP2p = <<>>
    /\ sentHub = <<>>
    /\ peers = NoPeers
    /\ established = [n \in Nodes |-> FALSE]
    /\ p2p_message = NoMessages
    /\ to_p2p = NoMessages
    /\ gossip = NoMessages
    /\ \E d \in InitDifficulties :
           remote = [chain |-> <<create_genesis_block(d, NowStart - 1)>>,
                     difficulty |-> d, panicked |-> FALSE]
    /\ met = NotMet
    /\ lost = 0
    /\ Unlocked

NextFollow ==
    \/ /\ Tick
       /\ UNCHANGED <<netVars, lockVars>>
    \/ /\ \E n \in Nodes : ConnectionEstablished(n)
       /\ UNCHANGED lockVars
    \/ /\ \E n \in Nodes : Published(n)
       /\ UNCHANGED lockVars
    \/ /\ \E n \in Nodes : Received(n)
       /\ UNCHANGED lockVars
    \/ /\ MineLocal
       /\ UNCHANGED lockVars
    \/ /\ DispatchLocal
       /\ UNCHANGED lockVars
    \/ /\ DispatchRemote
       /\ UNCHANGED lockVars

SpecFollow == InitFollow /\ [][NextFollow]_vars

----------------------------------------------------------------------------
(* The two mutexes: the handlers that take the blockchain mutex, the pool    *)
(* mutex, or both                                                            *)

\* The tasks of a node that take the pool mutex: the POST /mine handler, the
\* POST /transact handler, the dispatcher task
PoolTasks == {"mine", "transact", "dispatcher"}

\* The mutexes a handler locks, in the order of its lock() calls; the
\* periodic miner locking the pool first
LockOrder_periodic_pool_first(handler) ==
    CASE handler = "mine" -> <<"blockchain", "pool">>
      [] handler = "transact" -> <<"blockchain", "pool">>
      [] handler = "periodic_mine" -> <<"pool", "blockchain">>
      [] handler = "Transaction" -> <<"pool">>

\* The mutexes a handler locks, in the order of its lock() calls
LockOrder(handler) ==
    CASE handler = "mine" -> <<"blockchain", "pool">>
      [] handler = "transact" -> <<"blockchain", "pool">>
      [] handler = "periodic_mine" -> <<"blockchain", "pool">>
      [] handler = "Transaction" -> <<"pool">>

\* The requests and events each task serves
Requests(t) ==
    CASE t = "mine" -> {[handler |-> "mine"]}
      [] t = "transact" ->
            {[handler |-> "transact", key |-> MinerKey, to |-> to, amount |-> NodeAmount] :
                to \in Recipients}
      [] t = "dispatcher" ->
            {[handler |-> "periodic_mine"],
             [handler |-> "Transaction",
              transaction |-> CoinbaseTx(chain, GetAddress(OutsiderKey), now)]}

Holder(mutex) == IF mutex = "blockchain" THEN lock ELSE pool_lock
Busy(t) == pc[t] # "idle"
\* The mutex task t is blocked on in lock()
Wanted(t) ==
    CASE pc[t] = "lock_first" -> LockOrder(work[t].handler)[1]
      [] pc[t] = "lock_second" -> LockOrder(work[t].handler)[2]
Waiting(t) == pc[t] \in {"lock_first", "lock_second"}

\* Tasks that are inside a handler which will mine, or push to the pool
Mining == {t \in PoolTasks : Busy(t) /\ work[t].handler \in {"mine", "periodic_mine"}}
Pushing == {t \in PoolTasks : Busy(t) /\ work[t].handler \in {"transact", "Transaction"}}

\* Task t takes a request, or the dispatcher an event of its select!
Begin(t, request) ==
    /\ ~panicked
    /\ pc[t] = "idle"
    /\ request.handler \in {"mine", "periodic_mine"} =>
          CanGrow(Cardinality(Mining) + 1) /\ Mineable(difficulty)
    /\ request.handler \in {"transact", "Transaction"} =>
          Len(pool) + Cardinality(Pushing) < MaxPool
    /\ work' = [work EXCEPT ![t] = request]
    /\ pc' = [pc EXCEPT ![t] = "lock_first"]
    /\ UNCHANGED <<lock, pool_lock>>
    /\ UNCHANGED nodeVars

\* lock().unwrap() returns in task t: the mutex is free and t takes it
Acquire(t, mutex) ==
    /\ Holder(mutex) = "none"
    /\ lock' = IF mutex = "blockchain" THEN t ELSE lock
    /\ pool_lock' = IF mutex = "pool" THEN t ELSE pool_lock

\* transact answers "Not enough funds" before it locks the pool
Refused(request) ==
    /\ request.handler = "transact"
    /\ TransactResult(chain, request.key, request.to, request.amount, now).status # "200"

\* The first lock() of the handler
LockFirst(t) ==
    /\ pc[t] = "lock_first"
    /\ Acquire(t, LockOrder(work[t].handler)[1])
    /\ pc' = [pc EXCEPT ![t] =
                 IF Len(LockOrder(work[t].handler)) = 1 \/ Refused(work[t])
                 THEN "locked" ELSE "lock_second"]
    /\ UNCHANGED work
    /\ UNCHANGED nodeVars

\* The second lock() of the handler
LockSecond(t) ==
    /\ pc[t] = "lock_second"
    /\ Acquire(t, LockOrder(work[t].handler)[2])
    /\ pc' = [pc EXCEPT ![t] = "locked"]
    /\ UNCHANGED work
    /\ UNCHANGED nodeVars

\* What the handler does under its locks, up to the drop of the guards
Return(t) ==
    LET request == work[t]
    IN  /\ pc[t] = "locked"
        /\ CASE request.handler = "mine" -> MineHttp
             [] request.handler = "periodic_mine" -> MinePeriodic
             [] request.handler = "transact" ->
                    Transact(request.key, request.to, request.amount)
             [] request.handler = "Transaction" -> DeliverTransaction(request.transaction)
        /\ lock' = IF lock = t THEN "none" ELSE lock
        /\ pool_lock' = IF pool_lock = t THEN "none" ELSE pool_lock
        /\ pc' = [pc EXCEPT ![t] = "idle"]
        /\ work' = [work EXCEPT ![t] = <<>>]

InitMutex ==
    /\ chain = <<create_genesis_block(1, NowStart)>>
    /\ difficulty = 1
    /\ file = <<>>
    /\ pool = <<>>
    /\ now = NowStart
    /\ panicked = FALSE
    /\ replaced = FALSE
    /\ last = NoCall
    /\ sentP2p = <<>>
    /\ sentHub = <<>>
    /\ peers = NoPeers
    /\ established = [n \in Nodes |-> FALSE]
    /\ p2p_message = NoMessages
    /\ to_p2p = NoMessages
    /\ gossip = NoMessages
    /\ remote = [chain |-> <<>>, difficulty |-> 0, panicked |-> FALSE]
    /\ met = NotMet
    /\ lost = 0
    /\ lock = "none"
    /\ pool_lock = "none"
    /\ pc = [t \in PoolTasks |-> "idle"]
    /\ work = [t \in PoolTasks |-> <<>>]

NextMutex ==
    \/ /\ \E t \in PoolTasks : \E request \in Requests(t) : Begin(t, request)
       /\ UNCHANGED netVars
    \/ /\ \E t \in PoolTasks : LockFirst(t)
       /\ UNCHANGED netVars
    \/ /\ \E t \in PoolTasks : LockSecond(t)
       /\ UNCHANGED netVars
    \/ /\ \E t \in PoolTasks : Return(t)
       /\ UNCHANGED netVars

SpecMutex == InitMutex /\ [][NextMutex]_vars

----------------------------------------------------------------------------
(* Claims *)

\* C1: in every reachable state, for all i > 0, chain[i].previous_hash =
\* chain[i-1].hash and chain[i].index = chain[i-1].index + 1.
C1_ChainLinkage ==
    \A i \in 2..Len(chain) :
        /\ chain[i].previous_hash = chain[i - 1].hash
        /\ chain[i].index = chain[i - 1].index + 1

\* The four rules of the claim C2, against the tip, at the time of the call
FourRules(block, tip, d, t) ==
    /\ block.index = tip.index + 1
    /\ block.previous_hash = tip.hash
    /\ LeadingZeros(block.hash) >= d /\ block.hash = CalculateHash(block)
    /\ tip.timestamp <= block.timestamp /\ block.timestamp <= t + FUTURE_TOLERANCE

\* C2: add_block_from_network(block) appends the block and returns true if
\* and only if the four rules hold against the current tip; otherwise it
\* returns false and leaves the chain and the difficulty unchanged.
C2_AddBlockFromNetwork ==
    [][\A b \in ForeignBlocks :
          DeliverBlock(b) =>
            IF FourRules(b, Last(chain), difficulty, now)
            THEN chain' = Append(chain, b) /\ last'.ret = "true"
            ELSE last'.ret = "false" /\ chain' = chain /\ difficulty' = difficulty]_vars

\* C3: on ChainResponse(c), if c has strictly more blocks than the local chain
\* the local block list becomes exactly c's block list; if it has as many or
\* fewer, the local chain is left unchanged.
C3_ForkChoice ==
    [][\A s \in ForeignSnapshots :
          DeliverChainResponse(s) =>
            IF Len(s.chain) > Len(chain)
            THEN chain' = s.chain /\ Len(chain') = Len(s.chain)
            ELSE chain' = chain]_vars

\* A chain was just replaced by one two blocks longer.
C3_Witness ==
    /\ last.op = "ChainResponse" /\ last.ret = "replaced"
    /\ Len(chain) = 3
    /\ Len(file[1].chain) = 3

\* The /transact request that built transaction t against the current chain
TransactBuilt(t) ==
    \E key \in Keys, to \in Recipients, amount \in Amounts :
        TransactResult(chain, key, to, amount, t.timestamp).tx = <<t>>
SpendOf(t) ==
    CHOOSE s \in [key : Keys, to : Recipients, amount : Amounts] :
        TransactResult(chain, s.key, s.to, s.amount, t.timestamp).tx = <<t>>

\* What the spends txs move to `address`, less what they move from it
RECURSIVE NetOf(_, _)
NetOf(txs, address) ==
    IF txs = <<>> THEN 0
    ELSE LET s == SpendOf(Last(txs))
         IN  NetOf(SubSeq(txs, 1, Len(txs) - 1), address)
               + (IF s.to = address THEN s.amount ELSE 0)
               - (IF GetAddress(s.key) = address THEN s.amount ELSE 0)

\* C4: when the next block takes in spends that transact accepted (each of an
\* amount A that is at most the sum V of its sender's UTXOs), every sender is
\* left with V - A, apart from the coinbase reward of the block, and every
\* receiver gains exactly A.
C4_NoDoubleSpend ==
    [][((MineHttp \/ MinePeriodic) /\ \A i \in DOMAIN pool : TransactBuilt(pool[i])) =>
          \A k \in Keys :
              get_balance(chain', GetAddress(k))
                = get_balance(chain, GetAddress(k)) + NetOf(pool, GetAddress(k))
                    + (IF k = MinerKey THEN REWARD ELSE 0)]_vars

\* C5: while no message has replaced the chain, every block is in the chain
\* once, and a Block message carrying a block the chain already holds returns
\* false, because the block fails the index or the previous-hash rule, and
\* leaves the chain as it is.
C5_IdempotentAcceptance ==
    [][~replaced' =>
         /\ \A i, j \in DOMAIN chain' : chain'[i] = chain'[j] => i = j
         /\ \A b \in ForeignBlocks :
               (DeliverBlock(b) /\ \E i \in DOMAIN chain : chain[i] = b) =>
                   /\ last'.ret = "false"
                   /\ chain' = chain
                   /\ \/ b.index # Last(chain).index + 1
                      \/ b.previous_hash # Last(chain).hash]_vars

\* A block a peer mined was accepted, and delivered again as the tip.
C5_Witness ==
    /\ ~replaced
    /\ last = Call("Block", "false", TRUE)
    /\ Len(chain) > 1
    /\ Last(chain).transactions[1].outputs[1].script_pub_key = GetAddress(PeerKey)
    /\ file = Saved(chain, difficulty)

\* C6: difficulty >= 1 in every reachable state of a node constructed with
\* difficulty >= 1.
C6_DifficultyFloor == difficulty >= 1

\* At difficulty 1, the block that closes an interval came more than twice
\* the expected time after the block that opened it.
C6_Witness ==
    /\ difficulty = 1
    /\ ~panicked
    /\ Len(chain) = LoadedLen + 1
    /\ Last(chain).index = DIFFICULTY_ADJUSTMENT_INTERVAL
    /\ Last(chain).timestamp - chain[1].timestamp
         > 2 * DIFFICULTY_ADJUSTMENT_INTERVAL * BLOCK_GENERATION_INTERVAL
    /\ file = Saved(chain, 1)

\* C7: after a block is appended, difficulty changes only if the new tip's
\* index is a positive multiple of 10; then, with time_taken = tip.timestamp -
\* chain[tip.index - 10].timestamp, it is one more if time_taken < 50, one
\* less if time_taken > 200 and difficulty > 1, and unchanged otherwise. No
\* step that appends no block changes the difficulty.
C7_AdjustmentRule ==
    [][IF /\ last'.op \in {"mine", "periodic_mine", "Block"}
          /\ Len(chain') = Len(chain) + 1
       THEN LET tip == Last(chain')
                pos == tip.index - 10
            IN  IF tip.index % 10 = 0 /\ tip.index > 0 /\ pos + 1 \in DOMAIN chain'
                THEN LET time_taken == tip.timestamp - chain'[pos + 1].timestamp
                     IN  /\ time_taken < 50 => difficulty' = difficulty + 1
                         /\ (time_taken > 200 /\ difficulty > 1) => difficulty' = difficulty - 1
                         /\ (~(time_taken < 50) /\ ~(time_taken > 200 /\ difficulty > 1))
                               => difficulty' = difficulty
                ELSE difficulty' = difficulty
       ELSE difficulty' = difficulty]_vars

\* The difficulty went up on a fast interval and the node went on.
C7_Witness ==
    /\ ~panicked
    /\ Last(chain).index = DIFFICULTY_ADJUSTMENT_INTERVAL
    /\ Len(chain) = LoadedLen + 1
    /\ Last(chain).timestamp - chain[1].timestamp < 50
    /\ difficulty = 2
    /\ file = Saved(chain, 2)

\* C8: every block in the local chain, in every reachable state, satisfies
\* block.hash = calculate_hash(block with its hash field blanked);
\* calculate_hash does not depend on the hash field and changes with every
\* other field.
C8_HashIntegrity ==
    \A i \in DOMAIN chain :
        LET b == chain[i]
        IN  /\ b.hash = CalculateHash([b EXCEPT !.hash = EmptyString])
            /\ CalculateHash(b) = CalculateHash([b EXCEPT !.hash = EmptyString])
            /\ CalculateHash([b EXCEPT !.index = @ + 1]) # CalculateHash(b)
            /\ CalculateHash([b EXCEPT !.timestamp = @ + 1]) # CalculateHash(b)
            /\ CalculateHash([b EXCEPT !.fractal = GenesisFractalType]) # CalculateHash(b)
                  \/ b.fractal = GenesisFractalType
            /\ CalculateHash([b EXCEPT !.transactions = <<>>]) # CalculateHash(b)
            /\ CalculateHash([b EXCEPT !.previous_hash = EmptyString]) # CalculateHash(b)
            /\ CalculateHash([b EXCEPT !.nonce = @ + 1]) # CalculateHash(b)

\* C9: a transact request whose amount exceeds the sum of the sender's UTXOs
\* in the chain is answered with an error, "Not enough funds"; it adds
\* nothing to the pool and sends no Transaction message to peers.
C9_InsufficientFunds ==
    [][\A key \in Keys, to \in Recipients, amount \in Amounts :
          (Transact(key, to, amount) /\ amount > get_balance(chain, GetAddress(key))) =>
              /\ last'.ret = "400 Not enough funds"
              /\ pool' = pool
              /\ sentP2p' = <<>>]_vars

\* A request for more than the sender has was refused while a spend waits.
C9_Witness ==
    /\ last = Call("transact", "400 Not enough funds", FALSE)
    /\ sentP2p = <<>>
    /\ Len(pool) = 1
    /\ get_balance(chain, GetAddress(MinerKey)) = REWARD

\* The entries of the pool with the id of transaction t
CopiesInPool(p, t) == Cardinality({i \in DOMAIN p : p[i].id = t.id})

\* C10: an inbound Transaction message is added to the pool only if
\* transaction.verify() is true and no pool entry has its id; otherwise the
\* pool is unchanged.  Delivered again, the transaction stays in the pool once.
C10_PoolAdmission ==
    [][\A tx \in ForeignTxs :
          DeliverTransaction(tx) =>
              IF Verify(tx) /\ CopiesInPool(pool, tx) = 0
              THEN pool' = Append(pool, tx) /\ CopiesInPool(pool', tx) = 1
              ELSE pool' = pool]_vars

\* The message that put a transaction in the pool came again and was dropped.
C10_Witness ==
    /\ last = Call("Transaction", "dropped", TRUE)
    /\ Len(pool) = 1
    /\ Verify(pool[1])
    /\ pool[1].inputs[1].pub_key = PublicKey(PeerKey)

\* C11: each mine operation (HTTP /mine or the periodic miner) appends exactly
\* one block, with index = old tip index + 1 and previous_hash = old tip hash;
\* its transactions are one coinbase (reward 50 to the miner address)
\* followed by every transaction that was in the pool, in pool order; the
\* pool is empty afterwards.
C11_LocalMining ==
    [][(MineHttp \/ MinePeriodic) =>
          LET b == Last(chain')
          IN  /\ chain' = Append(chain, b)
              /\ b.index = Last(chain).index + 1
              /\ b.previous_hash = Last(chain).hash
              /\ Len(b.transactions) = Len(pool) + 1
              /\ Len(b.transactions[1].inputs) = 1
              /\ b.transactions[1].inputs[1].txid = ZeroTxid
              /\ b.transactions[1].outputs = <<TxOutput(50, GetAddress(MinerKey))>>
              /\ \A i \in DOMAIN pool : b.transactions[i + 1] = pool[i]
              /\ pool' = <<>>]_vars

\* A block was mined that took two different transactions out of the pool.
C11_Witness ==
    /\ last.op \in {"mine", "periodic_mine"} /\ last.ret = "200"
    /\ pool = <<>>
    /\ Len(Last(chain).transactions) = 3
    /\ Last(chain).transactions[2] # Last(chain).transactions[3]
    /\ Len(chain) = 3

\* The blocks handed to the miner: a block on the tip, as add_block builds
\* it, with a starting nonce
MinerStartNonces == 0..2
MinerTemplates ==
    {[index |-> Last(chain).index + 1, timestamp |-> now, fractal |-> ft,
      transactions |-> txs, previous_hash |-> Last(chain).hash,
      hash |-> EmptyString, nonce |-> n] :
        ft \in {DefaultFractalType, GenesisFractalType},
        txs \in {<<>>, Last(chain).transactions},
        n \in MinerStartNonces}

\* The attempt of the miner at nonce n
MinerAttempt(fractal_type, block, n) ==
    CalculateHash([block EXCEPT !.nonce = n, !.fractal = Generate(fractal_type, n)])

\* C12: mine_block(difficulty, template, block) returns a block whose hash
\* equals its calculate_hash() and has `difficulty` leading '0' characters,
\* whose fractal seed equals its nonce, and whose nonce is the smallest nonce
\* >= the starting nonce whose attempt meets the target; index, timestamp,
\* transactions and previous_hash are unchanged.
C12_MinerPostcondition ==
    \A block \in MinerTemplates, d \in 0..(HashZeroRange - 1) :
        LET r == mine_block(d, block.fractal, block)
        IN  /\ r.hash = CalculateHash(r)
            /\ LeadingZeros(r.hash) >= d
            /\ r.fractal.seed = r.nonce
            /\ r.fractal = Generate(block.fractal, r.nonce)
            /\ r.nonce >= block.nonce
            /\ r.hash = MinerAttempt(block.fractal, block, r.nonce)
            /\ \A n \in block.nonce..(r.nonce - 1) :
                  LeadingZeros(MinerAttempt(block.fractal, block, n)) < d
            /\ r.index = block.index
            /\ r.timestamp = block.timestamp
            /\ r.transactions = block.transactions
            /\ r.previous_hash = block.previous_hash

\* The node mined a block whose first attempts missed the target.
C12_Witness ==
    /\ last.op \in {"mine", "periodic_mine"} /\ last.ret = "200"
    /\ Last(chain).nonce > 0
    /\ Last(chain).fractal.seed = Last(chain).nonce
    /\ LeadingZeros(Last(chain).hash) >= difficulty
    /\ \E block \in MinerTemplates :
          mine_block(difficulty, block.fractal, block).nonce > block.nonce + 1

\* C13: for every block appended to the local chain, whether mined through
\* HTTP /mine, mined by the periodic miner or accepted from the network, the
\* handler sends exactly one BroadcastBlock notification carrying that block
\* to the hub; no notification is sent for a rejected block.
C13_ExactlyOnceNotification ==
    [][/\ ((MineHttp \/ MinePeriodic \/ \E b \in ForeignBlocks : DeliverBlock(b))
             /\ Len(chain') = Len(chain) + 1)
          => sentHub' = <<Last(chain')>>
       /\ ((\E b \in ForeignBlocks : DeliverBlock(b)) /\ chain' = chain)
          => sentHub' = <<>>]_vars

\* C14: whenever a block is appended (local or foreign) or the chain is
\* replaced, save_to_file is called with the updated chain before the handler
\* releases the chain lock: after the step, and from then on, the persisted
\* chain and difficulty equal the ones in memory.
C14_PersistedAfterAppend ==
    [][/\ (chain' # chain \/ difficulty' # difficulty)
             => file' = Saved(chain', difficulty')
       /\ file # <<>> => file' = Saved(chain', difficulty')]_vars

\* A chain of one genesis block mined at difficulty d
FreshGenesis(c, d) ==
    /\ Len(c) = 1
    /\ c[1].index = 0
    /\ c[1].hash = CalculateHash(c[1])
    /\ LeadingZeros(c[1].hash) >= d
    /\ c[1].previous_hash = Str("0", 1)

\* C15 as stated: Blockchain::new(d) returns the persisted chain and the
\* persisted difficulty when the file exists and parses, and otherwise a
\* fresh chain of one genesis block with index 0 mined at difficulty d; the
\* returned chain is never empty.
C15_StartupLoad_AsStated ==
    [][\A d \in InitDifficulties :
          Start(d) =>
              /\ chain' # <<>>
              /\ IF FileParses(file)
                 THEN chain' = file[1].chain /\ difficulty' = file[1].difficulty
                 ELSE difficulty' = d /\ FreshGenesis(chain', d)]_vars

\* C15, amended: Blockchain::new(d) returns the persisted chain and the
\* persisted difficulty when the file parses and holds at least one block
\* (save followed by new is a round trip); when the file parses and holds no
\* block it returns the persisted difficulty and one genesis block mined at
\* that difficulty; when the file is missing or corrupt it returns difficulty
\* d and one genesis block mined at d.  The returned chain is never empty.
C15_StartupLoad ==
    [][\A d \in InitDifficulties :
          Start(d) =>
              /\ chain' # <<>>
              /\ IF FileParses(file)
                 THEN /\ difficulty' = file[1].difficulty
                      /\ IF file[1].chain # <<>>
                         THEN chain' = file[1].chain
                         ELSE FreshGenesis(chain', file[1].difficulty)
                 ELSE difficulty' = d /\ FreshGenesis(chain', d)]_vars

\* A run mined a block and saved it, the process ended, and the next run
\* got the chain and the difficulty back from the file.
C15_Witness ==
    /\ last = Call("new", "loaded", FALSE)
    /\ file = Saved(chain, difficulty)
    /\ Len(chain) = 2
    /\ Last(chain).transactions[1].outputs[1].script_pub_key = GetAddress(MinerKey)
    /\ difficulty = 1

\* Transactions to sign: one or two inputs that refer to outputs of the
\* chain, or one such input and a coinbase input
SignSamples ==
    LET txs == AllTransactions(chain)
        refs == {TxInput(txs[i].id, 0, EmptyString, EmptyString) : i \in DOMAIN txs}
        coinbase == TxInput(ZeroTxid, Len(chain), Str("coinbase", 0), EmptyString)
        inputs == {<<r>> : r \in refs} \cup {<<r, q>> : r \in refs, q \in refs \cup {coinbase}}
    IN  {NewTransaction(ins, <<TxOutput(10, GetAddress(PeerKey))>>, now) : ins \in inputs}

\* The txids an input may be changed to
OtherTxids == {ZeroTxid, Str("f00d", 0)}

\* A signed transaction with one thing changed: an input's txid or vout, an
\* output, the timestamp, or the signature of a non-coinbase input
Tampered(tx, key) ==
    {[tx EXCEPT !.inputs[p[1]].txid = p[2]] :
        p \in {q \in (DOMAIN tx.inputs) \X OtherTxids : tx.inputs[q[1]].txid # q[2]}}
      \cup {[tx EXCEPT !.inputs[i].vout = @ + 1] : i \in DOMAIN tx.inputs}
      \cup {[tx EXCEPT !.outputs[1].value = @ + 1],
            [tx EXCEPT !.outputs[1].script_pub_key = GetAddress(MinerKey)],
            [tx EXCEPT !.outputs = <<>>],
            [tx EXCEPT !.outputs = Append(@, TxOutput(1, GetAddress(MinerKey)))],
            [tx EXCEPT !.timestamp = @ + 1]}
      \cup {[tx EXCEPT !.inputs[i].script_sig = sig] :
              i \in {j \in DOMAIN tx.inputs : tx.inputs[j].txid # ZeroTxid},
              sig \in {EmptyString, Str("00", 2), WalletSign(key, Str("f00d", 0))}
                        \cup {WalletSign(other, TxCalculateHash(tx)) : other \in Keys \ {key}}}

\* C16: for any transaction with at least one non-coinbase input, after
\* sign(wallet) every input carries the same signature and public key, the
\* id-hash is unchanged by signing, and verify() returns true; changing any
\* input's txid or vout, any output, or the timestamp after signing, or any
\* non-coinbase input's signature, makes verify() return false.
C16_SignVerify ==
    \A tx \in SignSamples, key \in Keys :
        LET signed == Sign(tx, key)
        IN  /\ \A i, j \in DOMAIN signed.inputs :
                  /\ signed.inputs[i].script_sig = signed.inputs[j].script_sig
                  /\ signed.inputs[i].pub_key = signed.inputs[j].pub_key
            /\ \A i \in DOMAIN signed.inputs :
                  /\ signed.inputs[i].pub_key = PublicKey(key)
                  /\ signed.inputs[i].script_sig = WalletSign(key, tx.id)
            /\ TxCalculateHash(signed) = TxCalculateHash(tx)
            /\ signed.id = tx.id
            /\ Verify(signed)
            /\ \A changed \in Tampered(signed, key) : ~Verify(changed)

\* The coinbase transactions of a block: those with an input whose txid is
\* 64 zero characters
CoinbasesOf(b) ==
    {i \in DOMAIN b.transactions :
        \E j \in DOMAIN b.transactions[i].inputs :
            b.transactions[i].inputs[j].txid = ZeroTxid}

\* C17: every block in the local chain contains exactly one coinbase
\* transaction, in every reachable state, including when transactions reach
\* the pool from the network.
C17_OneCoinbasePerBlock ==
    \A i \in DOMAIN chain : Cardinality(CoinbasesOf(chain[i])) = 1

\* The addresses the chain can pay
PaidAddresses ==
    {GetAddress(k) : k \in Keys \cup {OutsiderKey}} \cup {GenesisAddress}

\* The positions <<block, transaction, output>> of the outputs of c that pay
\* `address` and that no input of any transaction of c refers to
UnspentAt(c, address) ==
    {p \in UNION {UNION {{<<b, t, o>> : o \in DOMAIN c[b].transactions[t].outputs} :
                            t \in DOMAIN c[b].transactions} : b \in DOMAIN c} :
        LET tx == c[p[1]].transactions[p[2]]
        IN  /\ tx.outputs[p[3]].script_pub_key = address
            /\ ~\E b \in DOMAIN c : \E t \in DOMAIN c[b].transactions :
                   \E i \in DOMAIN c[b].transactions[t].inputs :
                       /\ c[b].transactions[t].inputs[i].txid = tx.id
                       /\ c[b].transactions[t].inputs[i].vout = p[3] - 1}

\* Chain order, then transaction order, then output order
Before(p, q) ==
    \/ p[1] < q[1]
    \/ p[1] = q[1] /\ p[2] < q[2]
    \/ p[1] = q[1] /\ p[2] = q[2] /\ p[3] < q[3]

RECURSIVE SumAt(_, _)
SumAt(c, ps) ==
    IF ps = {} THEN 0
    ELSE LET p == CHOOSE q \in ps : TRUE
         IN  c[p[1]].transactions[p[2]].outputs[p[3]].value + SumAt(c, ps \ {p})

\* C18: get_utxos(address) returns exactly the outputs (txid, vout, output)
\* that pay the address and that no input anywhere in the chain refers to, in
\* chain order, then transaction order, then output order; get_balance is the
\* sum of their values.
C18_UtxoDerivation ==
    \A address \in PaidAddresses :
        LET ps == UnspentAt(chain, address)
            utxos == get_utxos(chain, address)
        IN  /\ Len(utxos) = Cardinality(ps)
            /\ \A p \in ps :
                  LET k == Cardinality({q \in ps : Before(q, p)}) + 1
                      tx == chain[p[1]].transactions[p[2]]
                  IN  utxos[k] = [txid |-> tx.id, vout |-> p[3] - 1,
                                  output |-> tx.outputs[p[3]]]
            /\ get_balance(chain, address) = SumAt(chain, ps)

\* A chain in which an output was spent and some address holds at least two
\* unspent outputs
C18_Witness ==
    /\ \E b \in DOMAIN chain : \E t \in DOMAIN chain[b].transactions :
           \E i \in DOMAIN chain[b].transactions[t].inputs :
               chain[b].transactions[t].inputs[i].txid # ZeroTxid
    /\ \E address \in PaidAddresses : Len(get_utxos(chain, address)) >= 2

\* C19: on every new-peer event (mDNS Discovered or ConnectionEstablished) the
\* node registers the peer in its peer set and emits a ChainRequest that is
\* delivered to the discovered peer, which then answers with its chain: the
\* request goes out on the channel whose messages the P2p task publishes.
C19_DiscoveryRequest ==
    [][\A n \in Nodes :
          (Discovered(n) \/ ConnectionEstablished(n)) =>
              /\ Other(n) \in peers'[n]
              /\ to_p2p'[n] = Append(to_p2p[n], ChainRequestMsg)]_vars

\* Both nodes have registered each other
HaveMet == met # NotMet

\* Each chain is at least as long as the other chain was when the nodes met
CaughtUp == Len(chain) >= met.remote /\ Len(remote.chain) >= met.local

\* C20: if two nodes discover each other while one holds a strictly longer
\* chain, then under fair scheduling and delivery of every published message
\* the node with the shorter chain eventually holds a chain at least as long
\* as the other's chain was at discovery time.
C20_CatchUp == HaveMet ~> CaughtUp

\* C21: processing a ChainRequest sends exactly one ChainResponse on the
\* outbound channel whose chain and difficulty equal the local chain and
\* difficulty at that moment, and leaves the local chain, difficulty and pool
\* unchanged.
C21_ChainRequestReply ==
    [][DeliverChainRequest =>
          /\ Len(sentP2p') = 1
          /\ sentP2p'[1].type = "ChainResponse"
          /\ sentP2p'[1].chain = chain
          /\ sentP2p'[1].difficulty = difficulty
          /\ chain' = chain /\ difficulty' = difficulty /\ pool' = pool]_vars

\* A ChainRequest was answered by a node whose chain and difficulty are no
\* longer the ones it started with
C21_Witness ==
    /\ last.op = "ChainRequest"
    /\ sentP2p = <<ChainResponseMsg(chain, difficulty)>>
    /\ Len(chain) > LoadedLen
    /\ difficulty \notin InitDifficulties

\* What the dispatcher branch for `message` does to the chain and the pool
AppliedToNode(message) ==
    CASE message.type = "ChainRequest" -> chain' = chain /\ pool' = pool
      [] message.type = "ChainResponse" ->
             /\ chain' = IF Len(message.chain) > Len(chain) THEN message.chain ELSE chain
             /\ pool' = pool
      [] message.type = "Block" ->
             /\ chain' = add_block_from_network(chain, difficulty, message.block, now).chain
             /\ pool' = pool
      [] message.type = "Transaction" ->
             /\ chain' = chain
             /\ pool' = IF /\ Verify(message.transaction)
                           /\ ~\E i \in DOMAIN pool : pool[i].id = message.transaction.id
                        THEN Append(pool, message.transaction)
                        ELSE pool

\* C22: the dispatcher is the single consumer of the inbound channel and
\* applies network messages to the chain and the pool strictly in the order
\* they were enqueued, one whole message at a time: the channel changes only by
\* a message joining at its end, or by its oldest message leaving, applied.
C22_ArrivalOrder ==
    [][p2p_message'["local"] # p2p_message["local"] =>
          \/ /\ \E message \in InboundMessages :
                    p2p_message'["local"] = Append(p2p_message["local"], message)
             /\ chain' = chain /\ pool' = pool
          \/ /\ p2p_message["local"] # <<>>
             /\ p2p_message'["local"] = Tail(p2p_message["local"])
             /\ last'.op = Head(p2p_message["local"]).type
             /\ AppliedToNode(Head(p2p_message["local"]))]_vars

\* A block was taken and accepted while a snapshot that arrived after it,
\* one block longer than the chain was then, still waits
C22_Witness ==
    /\ last = Call("Block", "true", FALSE)
    /\ Len(p2p_message["local"]) = 1
    /\ p2p_message["local"][1].type = "ChainResponse"
    /\ Len(p2p_message["local"][1].chain) = Len(chain)

\* C23: when mining is triggered by the periodic background miner, the chain
\* lock is not held for the duration of the proof-of-work search, so HTTP
\* readers and the transaction path can acquire the lock while the search runs.
C23_PeriodicSearchUnlocked ==
    pc["dispatcher"] = "mining" => lock # "dispatcher"

\* C24: every mutation of the chain or the difficulty and every save_to_file
\* is a step of the task that holds the blockchain mutex; at most one task is
\* between lock() and the drop of its guard, so no two mutators interleave and
\* a reader holds the chain only between complete operations.
C24_MutualExclusion ==
    [][/\ (chain' # chain \/ difficulty' # difficulty \/ file' # file) =>
              /\ lock \in Tasks
              /\ pc[lock] \in Holding
              /\ pc'[lock] # pc[lock]
              /\ \A t \in Tasks \ {lock} : pc'[t] = pc[t]
       /\ \A t \in Tasks : pc'[t] \in Holding => lock' = t]_vars

\* POST /mine has pushed its block and not yet saved the chain, while the
\* dispatcher holds a Block message and waits for the mutex
C24_Witness ==
    /\ lock = "mine"
    /\ pc["mine"] = "pushed"
    /\ pc["dispatcher"] = "received"
    /\ file # Saved(chain, difficulty)

\* C26: for every accepted block the difficulty adjustment check comes first,
\* then the chain is persisted, then the block is broadcast to peers and to
\* the UI: no UI or peer broadcast of a block happens before that block has
\* been persisted.
C26_PersistBeforeBroadcast ==
    [][\A block \in {sentHub'[i] : i \in DOMAIN sentHub'}
                      \cup {sentP2p'[i].block :
                              i \in {j \in DOMAIN sentP2p' : sentP2p'[j].type = "Block"}} :
          (sentHub' # sentHub \/ sentP2p' # sentP2p) =>
              /\ file # <<>>
              /\ \E i \in DOMAIN file[1].chain : file[1].chain[i] = block]_vars

\* The block builds on the tip of c
OnTip(block, c) ==
    block.index = Last(c).index + 1 /\ block.previous_hash = Last(c).hash

\* C25: when a local mining operation and an inbound foreign block both build
\* on the same tip at height h, whichever takes the lock first becomes
\* chain[h+1]; if the local block wins, the foreign block is rejected by the
\* index/previous-hash check, the chain is unchanged by it, and it is never
\* reprocessed later.
C25_TipRace ==
    [][/\ AddFromNetwork =>
              IF OnTip(work["dispatcher"], chain)
              THEN chain' = Append(chain, work["dispatcher"])
              ELSE /\ chain' = chain /\ difficulty' = difficulty
                   /\ pc'["dispatcher"] = "rejected"
       /\ SaveAndUnlock => chain' = chain /\ work'["dispatcher"] = <<>>
       /\ \A t \in Miners :
              Push(t) => OnTip(work[t], chain) /\ chain' = Append(chain, work[t])]_vars

\* A foreign block for the tip at height h was rejected: the block POST /mine
\* mined on that tip took the lock first and is chain[h+1]
C25_Witness ==
    /\ pc["dispatcher"] = "rejected"
    /\ Len(chain) > 1
    /\ work["dispatcher"].previous_hash = chain[Len(chain) - 1].hash
    /\ work["dispatcher"].index = Last(chain).index
    /\ Last(chain).transactions[1].outputs[1].script_pub_key = GetAddress(MinerKey)
    /\ last.op = "mine"

\* C27: an outbound message taken from the channel while the node has no
\* gossip peers is dropped: it leaves the channel, nothing is published, the
\* local chain and pool are unaffected; and it is never published later, since
\* the only messages published are those at the head of the channel of a
\* node that has a gossip peer.
C27_BestEffortPublish ==
    [][/\ \A n \in Nodes :
              (Publish(n) /\ ~established[n]) =>
                  /\ to_p2p'[n] = Tail(to_p2p[n])
                  /\ gossip' = gossip
                  /\ chain' = chain /\ difficulty' = difficulty /\ pool' = pool
                  /\ remote' = remote
       /\ \A n \in Nodes :
              Len(gossip'[n]) > Len(gossip[n]) =>
                  /\ established[Other(n)]
                  /\ to_p2p[Other(n)] # <<>>
                  /\ gossip'[n] = Append(gossip[n], Head(to_p2p[Other(n)]))
                  /\ to_p2p'[Other(n)] = Tail(to_p2p[Other(n)])]_vars

\* This node never had a connection; the ChainResponse its dispatcher sent
\* has left the outbound channel and is nowhere on its way to the other node
C27_Witness ==
    /\ lost = 0
    /\ ~established["local"]
    /\ last.op = "ChainRequest"
    /\ sentP2p # <<>>
    /\ to_p2p["local"] = <<>>
    /\ gossip["remote"] = <<>>
    /\ p2p_message["remote"] = <<>>


\* The total of the first k UTXOs
PrefixTotal(utxos, k) == SumValues(SubSeq(utxos, 1, k))

RECURSIVE SumOutputs(_)
SumOutputs(outputs) ==
    IF outputs = <<>> THEN 0
    ELSE SumOutputs(SubSeq(outputs, 1, Len(outputs) - 1)) + Last(outputs).value

\* The transaction a successful /transact of `amount` from `key` to `to` leaves
\* in the pool and on the outbound channel, when it selected the first k UTXOs
\* of the sender.
TransactBuilds(key, to, amount, k) ==
    LET sender_address == GetAddress(key)
        utxos == get_utxos(chain, sender_address)
        total == PrefixTotal(utxos, k)
        tx == Last(pool')
    IN  /\ Len(tx.inputs) = k
        /\ \A i \in 1..k : /\ tx.inputs[i].txid = utxos[i].txid
                           /\ tx.inputs[i].vout = utxos[i].vout
        /\ total >= amount
        /\ tx.outputs[1] = TxOutput(amount, to)
        /\ Len(tx.outputs) = (IF total > amount THEN 2 ELSE 1)
        /\ total > amount => tx.outputs[2] = TxOutput(total - amount, sender_address)
        /\ SumOutputs(tx.outputs) = total
        /\ \A i \in 1..k : /\ tx.inputs[i].pub_key = PublicKey(key)
                           /\ tx.inputs[i].script_sig = WalletSign(key, tx.id)
        /\ Verify(tx)
        /\ pool' = Append(pool, tx)
        /\ sentP2p' = <<TransactionMsg(tx)>>

\* C28: a successful /transact takes the sender's UTXOs in get_utxos order, one
\* at least when the sender has any, and stops after the first one that brings
\* the total to `amount`; it builds one output of `amount` to the recipient and
\* a change output to the sender exactly when the total exceeds `amount`, so
\* the outputs sum to the selected inputs; it signs the transaction, appends
\* it to the pool once and sends one Transaction message.
C28_TransactConstruction ==
    [][\A key \in Keys, to \in Recipients, amount \in AnyAmounts :
          (Transact(key, to, amount) /\ last'.ret = "200") =>
            LET utxos == get_utxos(chain, GetAddress(key))
            IN  \E k \in 0..Len(utxos) :
                  /\ k = 0 => utxos = <<>>
                  /\ k > 1 => PrefixTotal(utxos, k - 1) < amount
                  /\ TransactBuilds(key, to, amount, k)]_vars

\* C28 as stated: the selected UTXOs are the first prefix, the empty one
\* included, whose total is at least `amount`.
C28_TransactConstruction_AsStated ==
    [][\A key \in Keys, to \in Recipients, amount \in AnyAmounts :
          (Transact(key, to, amount) /\ last'.ret = "200") =>
            LET utxos == get_utxos(chain, GetAddress(key))
            IN  \E k \in 0..Len(utxos) :
                  /\ \A j \in 0..(k - 1) : PrefixTotal(utxos, j) < amount
                  /\ TransactBuilds(key, to, amount, k)]_vars

\* A spend of 60 that took two UTXOs of 50 and returned 40 as change is in the
\* pool and on the outbound channel.
C28_Witness ==
    /\ last.op = "transact" /\ last.ret = "200"
    /\ pool # <<>>
    /\ Len(Last(pool).inputs) = 2
    /\ Len(Last(pool).outputs) = 2
    /\ Last(pool).outputs[1].value = 60
    /\ Last(pool).outputs[2].value = 40
    /\ sentP2p = <<TransactionMsg(Last(pool))>>


\* A block was put on the chain by add_block or add_block_from_network
BlockAppended ==
    /\ last'.op \in {"Block", "mine", "periodic_mine"}
    /\ Len(chain') = Len(chain) + 1
    /\ SubSeq(chain', 1, Len(chain)) = chain

\* C29: whenever a block is appended and its index is a positive multiple of
\* the adjustment interval, the position index - 10 that adjust_difficulty
\* reads is a position of the chain, and the append does not panic; this
\* holds also after a ChainResponse snapshot replaced the chain.
C29_AdjustIndexInRange ==
    [][(BlockAppended
          /\ Last(chain').index % DIFFICULTY_ADJUSTMENT_INTERVAL = 0
          /\ Last(chain').index # 0) =>
            /\ Last(chain').index - DIFFICULTY_ADJUSTMENT_INTERVAL \in 0..(Len(chain') - 1)
            /\ ~panicked']_vars


\* The inputs of the chain that refer to an output (coinbase inputs refer to
\* none), each with the place it stands at: <<transaction, input, txid, vout>>
SpendingInputs(c) ==
    LET txs == AllTransactions(c)
    IN  UNION {{<<i, j, txs[i].inputs[j].txid, txs[i].inputs[j].vout>> :
                    j \in {k \in DOMAIN txs[i].inputs : txs[i].inputs[k].txid # ZeroTxid}} :
               i \in DOMAIN txs}

\* C30: in every reachable chain, no two inputs, of one transaction or of
\* two, in one block or in two, refer to the same (txid, vout), whatever
\* /transact requests came in before the block was mined.
C30_NoOutputConsumedTwice ==
    \A a, b \in SpendingInputs(chain) :
        (a[3] = b[3] /\ a[4] = b[4]) => a = b


\* The ids of the transactions of one block
IdsOf(block) == {block.transactions[j].id : j \in DOMAIN block.transactions}

\* C31: in every reachable state no transaction id occurs in two blocks of
\* the chain; a pool transaction that came in inside an accepted foreign
\* block is not put in a block again by the next local mining.
C31_NoTransactionTwice ==
    \A i, j \in DOMAIN chain : i # j => IdsOf(chain[i]) \cap IdsOf(chain[j]) = {}


\* The outputs of the chain that (txid, vout) names
OutputsAt(c, txid, vout) ==
    LET txs == AllTransactions(c)
    IN  {txs[i].outputs[vout + 1] :
            i \in {k \in DOMAIN txs : txs[k].id = txid /\ vout + 1 \in DOMAIN txs[k].outputs}}

\* The inputs of a sequence of transactions that are not coinbase inputs
RealInputs(txs) ==
    UNION {{txs[i].inputs[j] : j \in {k \in DOMAIN txs[i].inputs :
                                          txs[i].inputs[k].txid # ZeroTxid}} :
           i \in DOMAIN txs}

\* The wallet whose public key signed the input owns the output it refers to
OwnedBySigner(c, input) ==
    /\ OutputsAt(c, input.txid, input.vout) # {}
    /\ \A output \in OutputsAt(c, input.txid, input.vout) :
           output.script_pub_key = [addr |-> input.pub_key]

\* C32: every non-coinbase input of a transaction in the pool (a locally
\* mined block takes its transactions from there) refers to an output paid to
\* the address derived from the public key that signed the input.
C32_OwnershipOfSpentOutputs ==
    \A input \in RealInputs(pool) : OwnedBySigner(chain, input)


\* The outputs that (txid, vout) names among the first n transactions
EarlierOutputs(txs, n, txid, vout) ==
    {txs[i].outputs[vout + 1] :
        i \in {k \in 1..n : txs[k].id = txid /\ vout + 1 \in DOMAIN txs[k].outputs}}

\* The value the inputs of transaction number n take from earlier outputs
RECURSIVE InputsValue(_, _, _)
InputsValue(txs, n, k) ==
    IF k = 0 THEN 0
    ELSE LET input == txs[n].inputs[k]
             found == EarlierOutputs(txs, n - 1, input.txid, input.vout)
         IN  InputsValue(txs, n, k - 1)
               + (IF found = {} THEN 0 ELSE (CHOOSE output \in found : TRUE).value)

IsCoinbase(tx) == \A j \in DOMAIN tx.inputs : tx.inputs[j].txid = ZeroTxid

\* The sum of the balances of all addresses: the value of every output of the
\* chain that no input refers to
TotalBalance(c) ==
    LET txs == AllTransactions(c)
        spent == SpentTxos(c)
        unspent(i) == SelectSeq([j \in DOMAIN txs[i].outputs |->
                                    [vout |-> j - 1, value |-> txs[i].outputs[j].value]],
                                LAMBDA o : <<txs[i].id, o.vout>> \notin spent)
        RECURSIVE Total(_)
        Total(i) == IF i = 0 THEN 0 ELSE Total(i - 1) + SumOutputs(unspent(i))
    IN  Total(Len(txs))

\* C33: every input of a non-coinbase transaction of the chain refers to an
\* output of an earlier transaction of the chain, the outputs of the
\* transaction sum to no more than the outputs its inputs refer to, and all
\* balances together are at most 50 for each block.
C33_NoValueCreation ==
    LET txs == AllTransactions(chain)
    IN  /\ \A n \in DOMAIN txs :
              ~IsCoinbase(txs[n]) =>
                /\ \A k \in DOMAIN txs[n].inputs :
                       EarlierOutputs(txs, n - 1, txs[n].inputs[k].txid,
                                      txs[n].inputs[k].vout) # {}
                /\ SumOutputs(txs[n].outputs) <= InputsValue(txs, n, Len(txs[n].inputs))
        /\ TotalBalance(chain) <= REWARD * Len(chain)


\* The transactions in the pool
Pooled(p) == {p[i] : i \in DOMAIN p}
\* The transactions in the blocks of the chain
InBlocks(c) == UNION {{c[i].transactions[j] : j \in DOMAIN c[i].transactions} : i \in DOMAIN c}
\* The transactions of the chain that were in the pool of this node: in these
\* runs a block holds its miner's coinbase first and then what this node's
\* pool held when it was mined
MinedFromPool(c) ==
    UNION {{c[i].transactions[j] : j \in DOMAIN c[i].transactions \ {1}} : i \in DOMAIN c}

\* C34: a transaction that was admitted to the pool is, after every later
\* step, in the pool or in a block of the chain.
C34_NoTransactionLost ==
    [][\A tx \in Pooled(pool) \cup MinedFromPool(chain) :
          tx \in Pooled(pool') \cup InBlocks(chain')]_vars


\* C35: along a chain that grew by add_block and add_block_from_network only,
\* every block has a timestamp at or after the timestamp of the block before
\* it, also a locally mined block that follows a foreign block accepted with
\* a timestamp up to 30 seconds in the future.
C35_TimestampsNonDecreasing ==
    ~replaced => \A i \in 2..Len(chain) : chain[i].timestamp >= chain[i - 1].timestamp


\* The other node has this node's chain up to the block before the tip, and
\* the next message its dispatcher takes is the tip, gossiped as a Block
TipArrivesInStep ==
    /\ p2p_message["remote"] # <<>>
    /\ Head(p2p_message["remote"]).type = "Block"
    /\ Head(p2p_message["remote"]).block = Last(chain)
    /\ remote.chain = SubSeq(chain, 1, Len(chain) - 1)

\* C36: once the other node has adopted this node's chain through a
\* ChainResponse, the next block this node mines on that tip and gossips is
\* accepted by the other node's add_block_from_network: the two chains are
\* equal again.
C36_FollowOnAcceptance ==
    [][(TipArrivesInStep /\ replaced = FALSE /\ DispatchRemote) => remote'.chain = chain]_vars


\* C37: handling a ChainResponse leaves the difficulty and the pool as they
\* are and sends nothing to the hub or to the peers; the chain becomes the
\* snapshot's block list or stays, and only a replaced chain is written to
\* the file.
C37_ReplacementFrame ==
    [][\A s \in InboundSnapshots :
          DeliverChainResponse(s) =>
            /\ chain' \in {chain, s.chain}
            /\ difficulty' = difficulty
            /\ pool' = pool
            /\ sentHub' = <<>>
            /\ sentP2p' = <<>>
            /\ file' = (IF chain' = chain THEN file ELSE Saved(chain', difficulty))]_vars

\* A ChainResponse has just replaced the chain of a node that has a
\* transaction waiting in its pool; the snapshot came with another difficulty.
C37_Witness ==
    /\ last.op = "ChainResponse" /\ last.ret = "replaced"
    /\ pool # <<>>
    /\ file = Saved(chain, difficulty)
    /\ Len(chain) = 3


\* A task that holds one mutex waits for the other, which a task holds that
\* waits for the first
WaitCycle ==
    \E t1, t2 \in PoolTasks :
        /\ t1 # t2
        /\ Waiting(t1) /\ Holder(Wanted(t1)) = t2
        /\ Waiting(t2) /\ Holder(Wanted(t2)) = t1

\* C38: mine, transact and the periodic miner lock the blockchain mutex
\* before the pool mutex and the Transaction branch locks the pool mutex only:
\* a task that holds the pool mutex never waits for the blockchain mutex, and
\* no two tasks wait for a mutex the other holds.
C38_NoLockCycle ==
    /\ \A t \in PoolTasks :
          (pool_lock = t /\ Waiting(t)) => Wanted(t) # "blockchain"
    /\ ~WaitCycle

\* The transact handler holds the blockchain mutex and waits for the pool
\* mutex, which the dispatcher holds in its Transaction branch.
C38_Witness ==
    /\ lock = "transact" /\ pc["transact"] = "lock_second"
    /\ pool_lock = "dispatcher" /\ work["dispatcher"].handler = "Transaction"
    /\ pc["mine"] = "lock_first"


\* C39: in every reachable state no two entries of the pool have the same id.
C39_PoolIdsUnique ==
    \A i, j \in DOMAIN pool : pool[i].id = pool[j].id => i = j


\* C40: no step of the node (mining, a foreign block, a ChainResponse, a
\* ChainRequest, a transaction) makes the chain shorter, and the chain holds
\* at least one block in every reachable state.
C40_LengthMonotonic ==
    /\ [](Len(chain) >= 1)
    /\ [][Len(chain') >= Len(chain)]_vars

\* A ChainResponse with a chain no longer than the local one has just been
\* handled by a node whose chain has grown to three blocks, one of them taken
\* from a peer, and whose pool holds a transaction.
C40_Witness ==
    /\ last.op = "ChainResponse" /\ last.ret = "kept"
    /\ Len(chain) = 3
    /\ replaced
    /\ pool # <<>>

====
